---- MODULE Spec2Model ----
(***************************************************************************)
(* Verification model of the gubgub game logic (src/main.cpp): the sparse  *)
(* component store (ComponentArray), the entity registry, the cell grid,   *)
(* the directional scan and the simulation tick.                           *)
(*                                                                         *)
(* C++ vectors are zero-based; a vector is modelled as a TLA+ sequence     *)
(* and element i of the vector is element i + 1 of the sequence.           *)
(***************************************************************************)
EXTENDS Integers, Sequences, FiniteSets, TLC

\* std::numeric_limits<uint32_t>::max(), the "no slot" / "no coordinate" value.
\* The model's unsigned words are 8 bits wide instead of 32 (TLC's integers
\* end at 2^31 - 1); every handle, size and coordinate explored is far below.
UintMax == 255

(***************************************************************************)
(* Bounds of the component-store specification.                            *)
(***************************************************************************)
\* entity handles used against the isolated store are 0 .. MaxEntity
MaxEntity == 2
\* longest deferred-removal queue explored
MaxToRemove == 1

Entities == 0 .. MaxEntity
\* component payloads: two distinguishable values
Vals == {1, 2}

\* std::vector::at / operator[] on a zero-based vector
At(vec, i) == vec[i + 1]

\* the elements of a vector, as a set
Range(vec) == { vec[k] : k \in 1 .. Len(vec) }

(***************************************************************************)
(* ComponentArray<T>: components, entities (dense, parallel), indices      *)
(* (sparse, by handle) and toRemove (deferred removals).                   *)
(***************************************************************************)
ComponentArray ==
    [components |-> << >>, entities |-> << >>, indices |-> << >>, toRemove |-> << >>]

has(s, entity) ==
    /\ Len(s.indices) > entity
    /\ At(s.indices, entity) < Len(s.components)

\* indices.at(entity) or components.at(index) throws std::out_of_range
atThrows(s, entity) ==
    \/ entity >= Len(s.indices)
    \/ At(s.indices, entity) >= Len(s.components)

get(s, entity) == At(s.components, At(s.indices, entity))

\* a write through the reference returned by get()
put(s, entity, v) ==
    [s EXCEPT !.components[At(s.indices, entity) + 1] = v]

\* remove() without the repair of the relocated entity's slot index
removeNoFix(s, entity) ==
    LET index == At(s.indices, entity)
        n     == Len(s.components)
        comps == [s.components EXCEPT ![index + 1] = s.components[n]]
        ents  == [s.entities EXCEPT ![index + 1] = s.entities[n]]
    IN  [s EXCEPT !.components = SubSeq(comps, 1, n - 1),
                  !.entities   = SubSeq(ents, 1, n - 1),
                  !.indices    = [s.indices EXCEPT ![entity + 1] = UintMax]]

\* remove() that pops the last component without moving it into the freed slot
removeNoMove(s, entity) ==
    LET index == At(s.indices, entity)
        n     == Len(s.components)
        ents  == [s.entities EXCEPT ![index + 1] = s.entities[n]]
        ind1  == [s.indices EXCEPT ![At(ents, index) + 1] = index]
    IN  [s EXCEPT !.components = SubSeq(s.components, 1, n - 1),
                  !.entities   = SubSeq(ents, 1, n - 1),
                  !.indices    = [ind1 EXCEPT ![entity + 1] = UintMax]]

\* remove() that leaves the removed entity's slot index in place
removeKeepSlot(s, entity) ==
    LET index == At(s.indices, entity)
        n     == Len(s.components)
        comps == [s.components EXCEPT ![index + 1] = s.components[n]]
        ents  == [s.entities EXCEPT ![index + 1] = s.entities[n]]
    IN  [s EXCEPT !.components = SubSeq(comps, 1, n - 1),
                  !.entities   = SubSeq(ents, 1, n - 1),
                  !.indices    = [s.indices EXCEPT ![At(ents, index) + 1] = index]]

\* swap-and-pop; defined where atThrows(s, entity) is false
remove(s, entity) ==
    LET index == At(s.indices, entity)
        n     == Len(s.components)
        comps == [s.components EXCEPT ![index + 1] = s.components[n]]
        ents  == [s.entities EXCEPT ![index + 1] = s.entities[n]]
        ind1  == [s.indices EXCEPT ![At(ents, index) + 1] = index]
        \* "index" is a reference to indices[entity]: written last
        ind2  == [ind1 EXCEPT ![entity + 1] = UintMax]
    IN  [s EXCEPT !.components = SubSeq(comps, 1, n - 1),
                  !.entities   = SubSeq(ents, 1, n - 1),
                  !.indices    = ind2]

\* clear() that forgets the slot table
clearKeepIndices(s) ==
    [s EXCEPT !.components = << >>, !.entities = << >>]

clear(s) ==
    [s EXCEPT !.components = << >>, !.entities = << >>, !.indices = << >>]

\* removeLater() that removes at once
removeLaterNow(s, id) ==
    IF atThrows(s, id) THEN s ELSE remove(s, id)

removeLater(s, id) ==
    [s EXCEPT !.toRemove = Append(@, id)]

\* add(entity) followed by the caller's initialisation of the new component to v
add(s, entity, v) ==
    LET grown == IF Len(s.indices) <= entity
                 THEN s.indices \o [k \in 1 .. (entity + 1 - Len(s.indices)) |-> UintMax]
                 ELSE s.indices
    IN  [s EXCEPT !.indices    = [grown EXCEPT ![entity + 1] = Len(s.components)],
                  !.entities   = Append(@, entity),
                  !.components = Append(@, v)]

\* the tail of forEach: remove every queued id in order, then clear the queue.
\* A throwing remove leaves the loop with the queue untouched; "done" counts
\* the removals that were carried out.
RECURSIVE flushFrom(_, _)
flushFrom(s, k) ==
    IF k > Len(s.toRemove)
    THEN [store |-> [s EXCEPT !.toRemove = << >>], threw |-> FALSE, done |-> k - 1]
    ELSE IF atThrows(s, s.toRemove[k])
    THEN [store |-> s, threw |-> TRUE, done |-> k - 1]
    ELSE flushFrom(remove(s, s.toRemove[k]), k + 1)

flush(s) == flushFrom(s, 1)

(***************************************************************************)
(* GameLogic: the registry, the grid and the scan.  A game state g is a    *)
(* record of GameLogic's data members; fault records how a call ended if   *)
(* not normally: "out_of_range" (a vector::at that threw) or "ub"          *)
(* (undefined behaviour: an unchecked index outside its vector, or         *)
(* erase(end())).                                                          *)
(***************************************************************************)
\* enum class Direction { Up, Left, Down, Right }
Up == 0
Left == 1
Down == 2
Right == 3
Directions == {Up, Left, Down, Right}

\* the component types GameLogic keeps a ComponentArray for
Components ==
    {"MapCoords", "Sprite", "CharacterAnimator", "SequenceAnimator", "Enemy", "Friendly",
     "Neutral", "PatrolPoint", "Solid", "InputIcon", "Text", "Door", "Transient"}

\* MapCoords{}: both coordinates at the maximum
MapCoords == [x |-> UintMax, y |-> UintMax]

directionCoords(direction) ==
    CASE direction = Up    -> << 0, -1 >>
      [] direction = Left  -> << -1, 0 >>
      [] direction = Down  -> << 0, 1 >>
      [] direction = Right -> << 1, 0 >>
      [] OTHER             -> << 0, 0 >>

\* uint32_t arithmetic: the sum of an unsigned word and an int
uadd(a, d) == (a + d) % (UintMax + 1)

\* cells.front().size() and cells.size()
width(g) == Len(g.cells[1])
height(g) == Len(g.cells)

\* cells[y][x]
cellAt(g, x, y) == g.cells[y + 1][x + 1]

\* std::find(v.begin(), v.end(), e) as an index; Len(v) stands for end()
RECURSIVE findFrom(_, _, _)
findFrom(v, e, k) ==
    IF k > Len(v) THEN Len(v)
    ELSE IF v[k] = e THEN k - 1
    ELSE findFrom(v, e, k + 1)

find(v, e) == findFrom(v, e, 1)

\* v.erase(v.begin() + k) for k < Len(v)
erase(v, k) == SubSeq(v, 1, k) \o SubSeq(v, k + 2, Len(v))

fail(g, how) == [g EXCEPT !.fault = how]

\* a createEntity() that leaves the handle it takes on the free list
createEntityNoPop(g) ==
    IF g.freeEntities # << >>
    THEN [index |-> Head(g.freeEntities),
          g |-> [g EXCEPT !.live = @ \cup {Head(g.freeEntities)}]]
    ELSE [index |-> g.entityIndexCounter,
          g |-> [g EXCEPT !.entityIndexCounter = uadd(@, 1), !.live = @ \cup {g.entityIndexCounter}]]

\* createEntity(): the handle returned and the state after (g.live keeps
\* count of the handles handed out and not destroyed since)
createEntity(g) ==
    IF g.freeEntities # << >>
    THEN [index |-> Head(g.freeEntities),
          g |-> [g EXCEPT !.freeEntities = Tail(@), !.live = @ \cup {Head(g.freeEntities)}]]
    ELSE [index |-> g.entityIndexCounter,
          g |-> [g EXCEPT !.entityIndexCounter = uadd(@, 1), !.live = @ \cup {g.entityIndexCounter}]]

\* destroyEntity() that leaves the entity on its cell's occupant list
destroyEntityKeepCell(g, index) ==
    [g EXCEPT !.componentArrays =
                  [T \in Components |-> IF has(g.componentArrays[T], index)
                                        THEN remove(g.componentArrays[T], index)
                                        ELSE g.componentArrays[T]],
              !.freeEntities = Append(@, index),
              !.live = @ \ {index}]

destroyEntity(g, index) ==
    LET mc       == g.componentArrays["MapCoords"]
        placed   == has(mc, index)
        coords   == get(mc, index)
        inGrid   == coords.x < width(g) /\ coords.y < height(g)
        occ      == cellAt(g, coords.x, coords.y).occupants
        k        == find(occ, index)
    IN  IF placed /\ (~inGrid \/ k = Len(occ))
        THEN fail(g, "ub")
        ELSE [g EXCEPT !.cells = IF placed
                                 THEN [@ EXCEPT ![coords.y + 1][coords.x + 1].occupants = erase(occ, k)]
                                 ELSE @,
                       !.componentArrays =
                           [T \in Components |-> IF has(g.componentArrays[T], index)
                                                 THEN remove(g.componentArrays[T], index)
                                                 ELSE g.componentArrays[T]],
                       !.freeEntities = Append(@, index),
                       !.live = @ \ {index}]

\* a clamp that leaves the step as it is
clampDeltaNever(g, x, y, dx, dy) == << dx, dy >>

\* clampDeltaToMap(x, y, dx, dy): the pair (dx, dy) after the call
clampDeltaToMap(g, x, y, dx, dy) ==
    << IF (dx < 0 /\ x = 0) \/ (dx > 0 /\ x = width(g) - 1) THEN 0 ELSE dx,
       IF (dy < 0 /\ y = 0) \/ (dy > 0 /\ y = height(g) - 1) THEN 0 ELSE dy >>

\* moveEntity() that does not take the entity off its old cell
moveEntityNoErase(g, id, x, y) ==
    LET mapCoords == get(g.componentArrays["MapCoords"], id)
    IN  IF atThrows(g.componentArrays["MapCoords"], id) THEN fail(g, "out_of_range")
        ELSE IF (mapCoords.x # x \/ mapCoords.y # y) /\ x < width(g) /\ y < height(g)
        THEN [g EXCEPT !.cells[y + 1][x + 1].occupants = Append(@, id),
                       !.componentArrays["MapCoords"] = put(@, id, [x |-> x, y |-> y])]
        ELSE g

moveEntity(g, id, x, y) ==
    LET mapCoords == get(g.componentArrays["MapCoords"], id)
        old       == mapCoords.x < width(g) /\ mapCoords.y < height(g)
        pushed    == [g.cells EXCEPT ![y + 1][x + 1].occupants = Append(@, id)]
        \* the find runs after the push_back: on the new cell's list if old = new
        oldOcc    == pushed[mapCoords.y + 1][mapCoords.x + 1].occupants
        k         == find(oldOcc, id)
    IN  IF atThrows(g.componentArrays["MapCoords"], id) THEN fail(g, "out_of_range")
        ELSE IF (mapCoords.x # x \/ mapCoords.y # y) /\ x < width(g) /\ y < height(g)
        THEN IF old /\ k = Len(oldOcc) THEN fail(g, "ub")
             ELSE [g EXCEPT !.cells = IF old
                                      THEN [pushed EXCEPT ![mapCoords.y + 1][mapCoords.x + 1].occupants =
                                               erase(oldOcc, k)]
                                      ELSE pushed,
                            !.componentArrays["MapCoords"] = put(@, id, [x |-> x, y |-> y])]
        ELSE g

\* std::find_if(occupants, component<T>().has): is there such an occupant
anyHas(g, occupants, T) ==
    \E k \in 1 .. Len(occupants) : has(g.componentArrays[T], occupants[k])

(***************************************************************************)
(* scan(x, y, direction, limit, fn).  The callback's answer is given as    *)
(* stop(cell position, distance) by the set fnTrue of <<x, y, distance>>   *)
(* on which fn returns true.  The result is the sequence of callback       *)
(* invocations and the value returned; "oob" tells that cells was indexed  *)
(* outside the grid.                                                       *)
(***************************************************************************)
\* a scan loop that looks for a Solid occupant before it invokes the callback
RECURSIVE scanLoopSolidFirst(_, _, _, _, _, _, _, _, _)
scanLoopSolidFirst(g, testx, testy, dx, dy, distance, limit, fnTrue, calls) ==
    IF ~((limit = 0 \/ distance < limit) /\ (dx # 0 \/ dy # 0))
    THEN [calls |-> calls, ret |-> FALSE, oob |-> FALSE]
    ELSE IF ~(testx < width(g) /\ testy < height(g))
    THEN [calls |-> calls, ret |-> FALSE, oob |-> TRUE]
    ELSE
        LET d     == distance + 1
            cell  == cellAt(g, testx, testy)
            call  == [x |-> testx, y |-> testy, distance |-> d]
            delta == clampDeltaToMap(g, testx, testy, dx, dy)
        IN  IF cell.solid \/ anyHas(g, cell.occupants, "Solid")
            THEN [calls |-> calls, ret |-> FALSE, oob |-> FALSE]
            ELSE IF << testx, testy, d >> \in fnTrue
            THEN [calls |-> Append(calls, call), ret |-> TRUE, oob |-> FALSE]
            ELSE scanLoopSolidFirst(g, uadd(testx, delta[1]), uadd(testy, delta[2]), delta[1], delta[2],
                                    d, limit, fnTrue, Append(calls, call))

RECURSIVE scanLoop(_, _, _, _, _, _, _, _, _)
scanLoop(g, testx, testy, dx, dy, distance, limit, fnTrue, calls) ==
    IF ~((limit = 0 \/ distance < limit) /\ (dx # 0 \/ dy # 0))
    THEN [calls |-> calls, ret |-> FALSE, oob |-> FALSE]
    ELSE IF ~(testx < width(g) /\ testy < height(g))
    THEN [calls |-> calls, ret |-> FALSE, oob |-> TRUE]
    ELSE
        LET d     == distance + 1
            cell  == cellAt(g, testx, testy)
            call  == [x |-> testx, y |-> testy, distance |-> d]
            delta == clampDeltaToMap(g, testx, testy, dx, dy)
        IN  IF cell.solid THEN [calls |-> calls, ret |-> FALSE, oob |-> FALSE]
            ELSE IF << testx, testy, d >> \in fnTrue
            THEN [calls |-> Append(calls, call), ret |-> TRUE, oob |-> FALSE]
            ELSE IF anyHas(g, cell.occupants, "Solid")
            THEN [calls |-> Append(calls, call), ret |-> FALSE, oob |-> FALSE]
            ELSE scanLoop(g, uadd(testx, delta[1]), uadd(testy, delta[2]), delta[1], delta[2],
                          d, limit, fnTrue, Append(calls, call))

\* scan() that tests the origin cell first
scanFromOrigin(g, x, y, direction, limit, fnTrue) ==
    LET dc    == directionCoords(direction)
        delta == clampDeltaToMap(g, x, y, dc[1], dc[2])
    IN  scanLoop(g, x, y, delta[1], delta[2], 0, limit, fnTrue, << >>)

scan(g, x, y, direction, limit, fnTrue) ==
    LET dc    == directionCoords(direction)
        delta == clampDeltaToMap(g, x, y, dc[1], dc[2])
    IN  scanLoop(g, uadd(x, delta[1]), uadd(y, delta[2]), delta[1], delta[2], 0, limit, fnTrue, << >>)

(***************************************************************************)
(* The component store on its own: a client calling has/add/get/remove/    *)
(* clear/removeLater/forEach in any order.  forEach is split at its        *)
(* callbacks; a callback may write the visited component and may call      *)
(* removeLater, as the callbacks of gameTick do on the store they iterate. *)
(***************************************************************************)
VARIABLES
    store,      \* the ComponentArray
    pc,         \* "idle", or "iter" inside forEach
    i,          \* forEach's loop index
    visited,    \* entities handed to the callback by the running forEach
    begun,      \* the dense entity array when the running forEach began
    queued,     \* ids passed to removeLater by callbacks of that forEach
    op,         \* the last completed call: kind, entity, threw, ret
    added       \* the handles whose most recent successful add/remove was an add (none after clear)

storeVars == << store, pc, i, visited, begun, queued, added >>

\* GameLogic's data members
VARIABLES
    componentArrays,        \* component type -> ComponentArray
    cells,                  \* cells[y][x] = [solid, occupants]
    freeEntities,
    playerEntities,
    entityIndexCounter,
    entitiesNeeded,
    currentLevel,
    inputQueue,
    inputSpriteEntities,
    gubgubCounterText,
    capacity,               \* component<MapCoords>().components.capacity()
    growth,                 \* how the build's std::vector grows: "double" or "half"
    fault,                  \* "none", or how the last call left the program
    live,                   \* handles handed out by createEntity and not destroyed since
    tickTimer,              \* the timers, in units of tweenFrameInterval
    animationFrameTimer,
    tweenFrameTimer,
    tweenFrame,
    tween                   \* in units of 1 / texelsPerTile

gameVars == << componentArrays, cells, freeEntities, playerEntities, entityIndexCounter,
               entitiesNeeded, currentLevel, inputQueue, inputSpriteEntities,
               gubgubCounterText, capacity, growth, fault, live,
               tickTimer, animationFrameTimer, tweenFrameTimer, tweenFrame, tween >>

\* the latest call of scan made on the grid as it is: its arguments, the
\* callback invocations it made and what it returned
VARIABLE scanned

\* the engine's InputManager
VARIABLE manager

vars == << storeVars, op, gameVars, scanned, manager >>

\* struct Input; the union state holds a boolean (real = FALSE, v = 0 or 1)
\* or a real
Input(inputType, code) ==
    [inputType |-> inputType, code |-> code,
     state |-> [real |-> FALSE, v |-> 0], previousState |-> [real |-> FALSE, v |-> 0],
     mappingCount |-> 0]

\* a std::map<int, uint32_t> with no entry
NoEntries == [code \in {} |-> 0]

\* InputManager::InputManager(): inputs[0] is the input of a mapping not yet
\* mapped
InputManager ==
    [inputs |-> << Input("None", 0) >>, mappings |-> << >>,
     keyMap |-> NoEntries, mouseButtonMap |-> NoEntries, cursorMap |-> NoEntries,
     freeInputs |-> << >>]

NoScan ==
    [kind |-> "none", x |-> 0, y |-> 0, direction |-> Up, limit |-> 0, stop |-> 0,
     calls |-> << >>, ret |-> FALSE, oob |-> FALSE]

\* the game state as a record, and the assignment of one to the variables
Game ==
    [componentArrays |-> componentArrays, cells |-> cells, freeEntities |-> freeEntities,
     playerEntities |-> playerEntities, entityIndexCounter |-> entityIndexCounter,
     entitiesNeeded |-> entitiesNeeded, currentLevel |-> currentLevel,
     inputQueue |-> inputQueue, inputSpriteEntities |-> inputSpriteEntities,
     gubgubCounterText |-> gubgubCounterText, capacity |-> capacity, growth |-> growth,
     fault |-> fault, live |-> live,
     tickTimer |-> tickTimer, animationFrameTimer |-> animationFrameTimer,
     tweenFrameTimer |-> tweenFrameTimer, tweenFrame |-> tweenFrame, tween |-> tween]

SetGame(g) ==
    /\ componentArrays' = g.componentArrays
    /\ cells' = g.cells
    /\ freeEntities' = g.freeEntities
    /\ playerEntities' = g.playerEntities
    /\ entityIndexCounter' = g.entityIndexCounter
    /\ entitiesNeeded' = g.entitiesNeeded
    /\ currentLevel' = g.currentLevel
    /\ inputQueue' = g.inputQueue
    /\ inputSpriteEntities' = g.inputSpriteEntities
    /\ gubgubCounterText' = g.gubgubCounterText
    /\ capacity' = g.capacity
    /\ growth' = g.growth
    /\ fault' = g.fault
    /\ live' = g.live
    /\ tickTimer' = g.tickTimer
    /\ animationFrameTimer' = g.animationFrameTimer
    /\ tweenFrameTimer' = g.tweenFrameTimer
    /\ tweenFrame' = g.tweenFrame
    /\ tween' = g.tween

\* a GameLogic before init(): no level, no entity, a grid of the given size
\* without walls
GameLogic(w, h) ==
    [componentArrays |-> [T \in Components |-> ComponentArray],
     cells |-> [y \in 1 .. h |-> [x \in 1 .. w |-> [solid |-> FALSE, occupants |-> << >>]]],
     freeEntities |-> << >>, playerEntities |-> << >>, entityIndexCounter |-> 0,
     entitiesNeeded |-> 0, currentLevel |-> 0, inputQueue |-> << >>,
     inputSpriteEntities |-> << >>, gubgubCounterText |-> UintMax, capacity |-> 0,
     growth |-> "double", fault |-> "none", live |-> {},
     tickTimer |-> 0, animationFrameTimer |-> 0, tweenFrameTimer |-> 0, tweenFrame |-> 0,
     tween |-> 0]

SetGameInit(g) ==
    /\ componentArrays = g.componentArrays
    /\ cells = g.cells
    /\ freeEntities = g.freeEntities
    /\ playerEntities = g.playerEntities
    /\ entityIndexCounter = g.entityIndexCounter
    /\ entitiesNeeded = g.entitiesNeeded
    /\ currentLevel = g.currentLevel
    /\ inputQueue = g.inputQueue
    /\ inputSpriteEntities = g.inputSpriteEntities
    /\ gubgubCounterText = g.gubgubCounterText
    /\ capacity = g.capacity
    /\ growth = g.growth
    /\ fault = g.fault
    /\ live = g.live
    /\ tickTimer = g.tickTimer
    /\ animationFrameTimer = g.animationFrameTimer
    /\ tweenFrameTimer = g.tweenFrameTimer
    /\ tweenFrame = g.tweenFrame
    /\ tween = g.tween

\* the isolated store, unused
StoreIdle ==
    /\ store = ComponentArray
    /\ pc = "idle"
    /\ i = 0
    /\ visited = << >>
    /\ begun = << >>
    /\ queued = {}
    /\ added = {}

Call(kind, e, threw, ret) == [kind |-> kind, e |-> e, threw |-> threw, ret |-> ret]

\* visited, begun and queued describe the latest forEach only until the next call
Forget == visited' = << >> /\ begun' = << >> /\ queued' = {}

StoreInit ==
    /\ store = ComponentArray
    /\ pc = "idle"
    /\ i = 0
    /\ visited = << >>
    /\ begun = << >>
    /\ queued = {}
    /\ op = Call("init", 0, FALSE, 0)
    /\ added = {}
    /\ SetGameInit(GameLogic(1, 1))
    /\ scanned = NoScan
    /\ manager = InputManager

\* add(e) = v; callers only add a component the entity does not have
CallAdd(e, v) ==
    /\ UNCHANGED << gameVars, scanned, manager >>
    /\ pc = "idle"
    /\ ~has(store, e)
    /\ store' = add(store, e, v)
    /\ op' = Call("add", e, FALSE, v)
    /\ added' = added \cup {e}
    /\ Forget
    /\ UNCHANGED << pc, i >>

\* remove(e); ret is the dense slot e occupied
CallRemove(e) ==
    /\ UNCHANGED << gameVars, scanned, manager >>
    /\ pc = "idle"
    /\ IF atThrows(store, e)
       THEN /\ op' = Call("remove", e, TRUE, 0)
            /\ UNCHANGED << store, added >>
       ELSE /\ store' = remove(store, e)
            /\ op' = Call("remove", e, FALSE, At(store.indices, e))
            /\ added' = added \ {e}
    /\ Forget
    /\ UNCHANGED << pc, i >>

CallClear ==
    /\ UNCHANGED << gameVars, scanned, manager >>
    /\ pc = "idle"
    /\ store' = clear(store)
    /\ op' = Call("clear", 0, FALSE, 0)
    /\ added' = {}
    /\ Forget
    /\ UNCHANGED << pc, i >>

\* removeLater(e) outside any iteration
CallRemoveLater(e) ==
    /\ UNCHANGED << gameVars, scanned, manager >>
    /\ pc = "idle"
    /\ Len(store.toRemove) < MaxToRemove
    /\ store' = removeLater(store, e)
    /\ op' = Call("removeLater", e, FALSE, 0)
    /\ Forget
    /\ UNCHANGED << pc, i, added >>

\* get(e): the component returned, or std::out_of_range
CallGet(e) ==
    /\ UNCHANGED << gameVars, scanned, manager >>
    /\ pc = "idle"
    /\ op' = Call("get", e, atThrows(store, e), IF atThrows(store, e) THEN 0 ELSE get(store, e))
    /\ Forget
    /\ UNCHANGED << store, pc, i, added >>

ForEachBegin ==
    /\ UNCHANGED << gameVars, scanned, manager >>
    /\ pc = "idle"
    /\ pc' = "iter"
    /\ i' = 0
    /\ visited' = << >>
    /\ begun' = store.entities
    /\ queued' = {}
    /\ UNCHANGED << store, op, added >>

\* one turn of the loop: fn(components.at(i), entities.at(i)), where fn writes
\* v into the component (v = 0: leaves it) and calls removeLater(r) (r = -1: does not)
ForEachVisit(v, r) ==
    /\ UNCHANGED << gameVars, scanned, manager >>
    /\ pc = "iter"
    /\ i < Len(store.components)
    /\ r # -1 => Len(store.toRemove) < MaxToRemove
    /\ LET e  == At(store.entities, i)
           s1 == IF v = 0 THEN store ELSE [store EXCEPT !.components[i + 1] = v]
       IN  /\ store' = IF r = -1 THEN s1 ELSE removeLater(s1, r)
           /\ visited' = Append(visited, e)
    /\ queued' = IF r = -1 THEN queued ELSE queued \cup {r}
    /\ i' = i + 1
    /\ UNCHANGED << pc, begun, op, added >>

\* the loop is over: flush the deferred removals and return (or throw)
ForEachEnd ==
    /\ UNCHANGED << gameVars, scanned, manager >>
    /\ pc = "iter"
    /\ i >= Len(store.components)
    /\ LET f == flush(store)
       IN  /\ store' = f.store
           /\ op' = Call("forEach", 0, f.threw, f.done)
           /\ added' = added \ { store.toRemove[k] : k \in 1 .. f.done }
    /\ pc' = "idle"
    /\ i' = 0
    /\ UNCHANGED << visited, begun, queued >>

StoreNext ==
    \/ \E e \in Entities, v \in Vals : CallAdd(e, v)
    \/ \E e \in Entities : CallRemove(e)
    \/ CallClear
    \/ \E e \in Entities : CallRemoveLater(e)
    \/ \E e \in Entities : CallGet(e)
    \/ ForEachBegin
    \/ \E v \in {0} \cup Vals, r \in {-1} \cup Entities : ForEachVisit(v, r)
    \/ ForEachEnd

StoreSpec == StoreInit /\ [][StoreNext]_vars

(***************************************************************************)
(* Properties of the component store (checked under StoreSpec).            *)
(***************************************************************************)

\* C1: after every operation, has(e) is true exactly when the most recent
\* successful add/remove on e was an add (no add, or a clear since, counts
\* as absent).
C1_HasIffLastAdded ==
    \A e \in Entities : has(store, e) <=> e \in added

\* C1 witness: a remove has just taken one entity out while another, added
\* earlier, is still held.
C1_Witness ==
    /\ op.kind = "remove" /\ ~op.threw
    /\ \E f \in Entities : f # op.e /\ f \in added /\ has(store, f)
    /\ op.e \notin added /\ ~has(store, op.e)

\* C2: a remove(e) that does not throw leaves one component fewer, and every
\* other entity that was held is still held with the value get returned before.
C2_SwapPop ==
    [][ \A e \in Entities : (CallRemove(e) /\ ~op'.threw) =>
          /\ Len(store'.components) = Len(store.components) - 1
          /\ Len(store'.entities) = Len(store.entities) - 1
          /\ \A f \in Entities \ {e} :
                has(store, f) => (has(store', f) /\ get(store', f) = get(store, f))
      ]_vars

\* C2 witness: the removed entity was not the last dense element, so the last
\* one was relocated into its slot, and it carries a different value.
C2_Witness ==
    /\ op.kind = "remove" /\ ~op.threw
    /\ op.ret < Len(store.components)
    /\ \E k \in 1 .. Len(store.components) : store.components[k] # store.components[op.ret + 1]

\* C3: components and entities have equal length, entities holds no handle
\* twice, and every slot index below that length points at its own entity.
C3_DenseSparse ==
    /\ Len(store.components) = Len(store.entities)
    /\ \A j, k \in 1 .. Len(store.entities) : store.entities[j] = store.entities[k] => j = k
    /\ \A e \in 0 .. (Len(store.indices) - 1) :
          At(store.indices, e) < Len(store.entities) => At(store.entities, At(store.indices, e)) = e

\* C3 witness: a forEach has flushed a deferred removal and left a store with
\* a relocated element and a vacated slot index.
C3_Witness ==
    /\ op.kind = "forEach" /\ ~op.threw /\ op.ret >= 1
    /\ Len(store.entities) >= 1
    /\ \E e \in 0 .. (Len(store.indices) - 1) : At(store.indices, e) = UintMax /\ e < store.entities[1]

\* C4: while a forEach runs, the dense array is the one it began with, the
\* callbacks have been given exactly its first i entities in order, and every
\* entity of it passed to removeLater is still held; once the forEach has
\* returned, every entity it began with was visited exactly once and no entity
\* passed to removeLater by a callback is held.
C4_DeferredRemoval ==
    /\ pc = "iter" =>
          /\ store.entities = begun
          /\ visited = SubSeq(begun, 1, i)
          /\ \A e \in queued : e \in Range(begun) => has(store, e)
    /\ (pc = "idle" /\ op.kind = "forEach" /\ ~op.threw) =>
          /\ visited = begun
          /\ \A e \in Range(begun) : Cardinality({k \in 1 .. Len(visited) : visited[k] = e}) = 1
          /\ \A e \in queued : ~has(store, e)

\* C4 witness: a forEach over at least two entities has returned after a
\* callback scheduled the removal of the first one visited.
C4_Witness ==
    /\ pc = "idle" /\ op.kind = "forEach" /\ ~op.threw
    /\ Len(begun) >= 2
    /\ queued = {begun[1]}
    /\ Len(store.entities) = Len(begun) - 1

\* C5: get(e) for an entity without a component (never added, removed, cleared
\* away, or beyond the slot table) has thrown std::out_of_range, and get never
\* changes the store.
C5_GetAbsentThrows ==
    [][ \A e \in Entities : CallGet(e) =>
          /\ store' = store
          /\ e \notin added => op'.threw
      ]_vars

\* C5 witness: get was called for an entity that was added and removed again,
\* while the store holds another entity's component in dense slot 0, and it threw.
C5_Witness ==
    /\ op.kind = "get" /\ op.threw
    /\ op.e \notin added
    /\ op.e < Len(store.indices) /\ At(store.indices, op.e) = UintMax
    /\ Len(store.components) >= 1

(***************************************************************************)
(* The registry and the grid on their own: a client calling createEntity,  *)
(* component<T>().add, moveEntity and destroyEntity in any order on an     *)
(* open grid.  As everywhere in GameLogic, a MapCoords component is added  *)
(* and the entity moved to a cell of the grid in one go.  destroyEntity    *)
(* may be called for any handle ever handed out.                           *)
(***************************************************************************)
\* createEntity is called while entityIndexCounter is below MaxHandles
MaxHandles == 2
\* destroyEntity is called while the free list is shorter than MaxFree
MaxFree == 2

\* the grid of this specification is EcsSize x EcsSize; moveEntity is also
\* called with the coordinate EcsSize (just outside)
EcsSize == 2
EcsCoords == 0 .. EcsSize
EcsComponents == {"Solid"}

EcsInit ==
    /\ StoreIdle
    /\ op = Call("init", 0, FALSE, 0)
    /\ SetGameInit(GameLogic(EcsSize, EcsSize))
    /\ scanned = NoScan
    /\ manager = InputManager

\* createEntity(); ret tells whether the handle returned was live already
EcsCreate ==
    /\ freeEntities # << >> \/ entityIndexCounter < MaxHandles
    /\ LET r == createEntity(Game)
       IN  /\ SetGame(r.g)
           /\ op' = Call("createEntity", r.index, FALSE, IF r.index \in live THEN 1 ELSE 0)
    /\ UNCHANGED << storeVars, scanned, manager >>

\* component<T>().add(e) for a tag the entity does not carry
EcsAdd(T, e) ==
    /\ e \in live
    /\ ~has(componentArrays[T], e)
    /\ SetGame([Game EXCEPT !.componentArrays[T] = add(@, e, 0)])
    /\ op' = Call("add", e, FALSE, 0)
    /\ UNCHANGED << storeVars, scanned, manager >>

\* component<MapCoords>().add(e); moveEntity(e, x, y) with (x, y) in the grid
EcsPlace(e, x, y) ==
    /\ e \in live
    /\ ~has(componentArrays["MapCoords"], e)
    /\ SetGame(moveEntity([Game EXCEPT !.componentArrays["MapCoords"] = add(@, e, MapCoords)], e, x, y))
    /\ op' = Call("place", e, FALSE, 0)
    /\ UNCHANGED << storeVars, scanned, manager >>

\* moveEntity(e, x, y) for any handle and any destination; ret is the
\* destination, as y * 2^8 + x
EcsMove(e, x, y) ==
    /\ e < entityIndexCounter
    /\ fault = "none"
    /\ LET g == moveEntity(Game, e, x, y)
       IN  /\ SetGame([g EXCEPT !.fault = "none"])
           /\ op' = Call("moveEntity", e, g.fault # "none", y * (UintMax + 1) + x)
    /\ UNCHANGED << storeVars, scanned, manager >>

\* destroyEntity(e) for any handle handed out before, destroyed since or not;
\* ret is 0 for a handle that was not live, else 1 + the number of stores holding e
EcsDestroy(e) ==
    /\ e < entityIndexCounter
    /\ Len(freeEntities) < MaxFree
    /\ fault = "none"
    /\ SetGame(destroyEntity(Game, e))
    /\ op' = Call("destroyEntity", e, FALSE,
                   IF e \in live
                   THEN 1 + Cardinality({T \in Components : has(componentArrays[T], e)})
                   ELSE 0)
    /\ UNCHANGED << storeVars, scanned, manager >>

EcsNext ==
    \/ EcsCreate
    \/ \E T \in EcsComponents, e \in 0 .. (MaxHandles - 1) : EcsAdd(T, e)
    \/ \E e \in 0 .. (MaxHandles - 1), x, y \in 0 .. (EcsSize - 1) : EcsPlace(e, x, y)
    \/ \E e \in 0 .. (MaxHandles - 1), x, y \in EcsCoords : EcsMove(e, x, y)
    \/ \E e \in 0 .. (MaxHandles - 1) : EcsDestroy(e)

EcsSpec == EcsInit /\ [][EcsNext]_vars

(***************************************************************************)
(* Properties of the registry and the grid (checked under EcsSpec).        *)
(***************************************************************************)
Handles == 0 .. (MaxHandles - 1)

\* e is on no cell's occupant list
OnNoCell(cs, e) ==
    \A y \in 1 .. Len(cs) : \A x \in 1 .. Len(cs[y]) : e \notin Range(cs[y][x].occupants)

\* the occupant list v without e
Without(v, e) == SelectSeq(v, LAMBDA z : z # e)

\* every component f holds before the step is held, with the same value, after it
KeepsComponentsOf(f) ==
    \A T \in Components :
        has(componentArrays[T], f) =>
            /\ has(componentArrays'[T], f)
            /\ get(componentArrays'[T], f) = get(componentArrays[T], f)

\* C6: destroyEntity(e) on a live entity ends normally with e in no component
\* store and on no occupant list, and with every other entity's components
\* and cell occupancy as before; and a handle that createEntity hands out
\* again (one that is not live) has no component and is on no occupant list.
C6_DestroyRemovesAll ==
    [][ /\ \A e \in Handles : (op'.kind = "destroyEntity" /\ EcsDestroy(e) /\ e \in live) =>
              /\ fault' = "none"
              /\ \A T \in Components : ~has(componentArrays'[T], e)
              /\ OnNoCell(cells', e)
              /\ \A f \in Handles \ {e} : KeepsComponentsOf(f)
              /\ \A y \in 1 .. Len(cells) : \A x \in 1 .. Len(cells[y]) :
                    cells'[y][x].occupants = Without(cells[y][x].occupants, e)
        /\ (op'.kind = "createEntity" /\ EcsCreate /\ op'.e \notin live) =>
              /\ \A T \in Components : ~has(componentArrays'[T], op'.e)
              /\ OnNoCell(cells', op'.e)
      ]_vars

\* C6 witness: a live entity that held MapCoords and Solid has just been
\* destroyed while another entity stands on the grid.
C6_Witness ==
    /\ op.kind = "destroyEntity" /\ op.ret = 3
    /\ \E f \in live : has(componentArrays["MapCoords"], f) /\ ~OnNoCell(cells, f)

\* C7: destroyEntity on a handle that is not live (destroyed and not handed out
\* again) changes neither the free list nor any store nor the grid, and
\* createEntity never returns a handle that is live.
C7_DoubleDestroyNoop ==
    [][ /\ \A e \in Handles : (EcsDestroy(e) /\ e \notin live) =>
              UNCHANGED << freeEntities, componentArrays, cells >>
        /\ EcsCreate => op'.e \notin live
      ]_vars

\* C9: moveEntity(e, x, y) on an entity standing on the grid changes nothing
\* when (x, y) is its cell or lies outside the grid; otherwise e leaves its
\* old cell's list, is appended to the list of cell (x, y), its MapCoords
\* become (x, y), and no other list, entity or store changes.
C9_MoveEntity ==
    [][ (op'.kind = "moveEntity"
           /\ EcsMove(op'.e, op'.ret % (UintMax + 1), op'.ret \div (UintMax + 1))
           /\ has(componentArrays["MapCoords"], op'.e)) =>
          LET e == op'.e
              x == op'.ret % (UintMax + 1)
              y == op'.ret \div (UintMax + 1)
              c == get(componentArrays["MapCoords"], e)
          IN  /\ ~op'.threw
              /\ IF (c.x = x /\ c.y = y) \/ ~(x < width(Game) /\ y < height(Game))
                 THEN cells' = cells /\ componentArrays' = componentArrays
                 ELSE /\ get(componentArrays'["MapCoords"], e) = [x |-> x, y |-> y]
                      /\ \A cy \in 1 .. Len(cells) : \A cx \in 1 .. Len(cells[cy]) :
                            cells'[cy][cx].occupants =
                               IF cx - 1 = x /\ cy - 1 = y THEN Append(cells[cy][cx].occupants, e)
                               ELSE IF cx - 1 = c.x /\ cy - 1 = c.y
                               THEN Without(cells[cy][cx].occupants, e)
                               ELSE cells[cy][cx].occupants
                      /\ Len(cells'[c.y + 1][c.x + 1].occupants) = Len(cells[c.y + 1][c.x + 1].occupants) - 1
                      /\ \A f \in Handles \ {e} : KeepsComponentsOf(f)
                      /\ \A T \in Components \ {"MapCoords"} : componentArrays'[T] = componentArrays[T]
                      /\ componentArrays'["MapCoords"].entities = componentArrays["MapCoords"].entities
                      /\ componentArrays'["MapCoords"].indices = componentArrays["MapCoords"].indices
      ]_vars

\* C9 witness: an entity has just been moved onto a cell where another entity
\* already stood.
C9_Witness ==
    /\ op.kind = "moveEntity" /\ ~op.threw
    /\ has(componentArrays["MapCoords"], op.e)
    /\ LET c   == get(componentArrays["MapCoords"], op.e)
           occ == cellAt(Game, c.x, c.y).occupants
       IN  /\ op.ret = c.y * (UintMax + 1) + c.x
           /\ Len(occ) = 2 /\ occ[2] = op.e

(***************************************************************************)
(* scan on its own: a grid is set up the way loadLevel does it (wall cells *)
(* made solid, entities created and moved to floor cells, with or without  *)
(* the Solid tag), and scan is called from the cell of an entity, as       *)
(* enemyLogic and runFrame call it, with a callback that returns true at   *)
(* one distance or never.  The grid is not touched while the result of a   *)
(* scan is in use.                                                         *)
(***************************************************************************)
\* the grid is ScanW x ScanH
ScanW == 4
ScanH == 2
\* at most MaxWalls cells are made solid
MaxWalls == 2
\* createEntity is called while entityIndexCounter is below MaxScanEntities
MaxScanEntities == 2
\* the limits scan is called with (the program passes 0)
Limits == {0, 2}

ScanInit ==
    /\ StoreIdle
    /\ op = Call("init", 0, FALSE, 0)
    /\ SetGameInit(GameLogic(ScanW, ScanH))
    /\ scanned = NoScan
    /\ manager = InputManager

\* cells[y][x].solid = true, on a cell nothing stands on
ScanWall(x, y) ==
    /\ scanned = NoScan
    /\ ~cellAt(Game, x, y).solid
    /\ cellAt(Game, x, y).occupants = << >>
    /\ Cardinality({c \in (0 .. (ScanW - 1)) \X (0 .. (ScanH - 1)) : cellAt(Game, c[1], c[2]).solid})
          < MaxWalls
    /\ SetGame([Game EXCEPT !.cells[y + 1][x + 1].solid = TRUE])
    /\ op' = Call("wall", 0, FALSE, 0)
    /\ UNCHANGED << storeVars, scanned, manager >>

\* e = createEntity(); component<MapCoords>().add(e); moveEntity(e, x, y);
\* and component<Solid>().add(e) for a solid entity
ScanSpawn(x, y, solid) ==
    /\ scanned = NoScan
    /\ entityIndexCounter < MaxScanEntities
    /\ ~cellAt(Game, x, y).solid
    /\ LET r  == createEntity(Game)
           g1 == [r.g EXCEPT !.componentArrays["MapCoords"] = add(@, r.index, MapCoords)]
           g2 == moveEntity(g1, r.index, x, y)
           g3 == IF solid THEN [g2 EXCEPT !.componentArrays["Solid"] = add(@, r.index, 0)] ELSE g2
       IN  /\ SetGame(g3)
           /\ op' = Call("spawn", r.index, FALSE, 0)
    /\ UNCHANGED << storeVars, scanned, manager >>

\* scan(coords.x, coords.y, direction, limit, fn) from the cell of entity e,
\* where fn returns true at distance stop (stop = 0: never)
ScanCall(e, direction, limit, stop) ==
    /\ scanned = NoScan
    /\ has(componentArrays["MapCoords"], e)
    /\ LET coords == get(componentArrays["MapCoords"], e)
           fnTrue == { << cx, cy, stop >> : cx \in 0 .. (ScanW - 1), cy \in 0 .. (ScanH - 1) }
           r      == scan(Game, coords.x, coords.y, direction, limit, fnTrue)
       IN  scanned' = [kind |-> "scan", x |-> coords.x, y |-> coords.y, direction |-> direction,
                       limit |-> limit, stop |-> stop,
                       calls |-> r.calls, ret |-> r.ret, oob |-> r.oob]
    /\ op' = Call("scan", e, FALSE, 0)
    /\ UNCHANGED << storeVars, gameVars, manager >>

\* the caller is done with the result of the scan
ScanReturn ==
    /\ scanned # NoScan
    /\ scanned' = NoScan
    /\ UNCHANGED << storeVars, op, gameVars, manager >>

ScanNext ==
    \/ \E x \in 0 .. (ScanW - 1), y \in 0 .. (ScanH - 1) : ScanWall(x, y)
    \/ \E x \in 0 .. (ScanW - 1), y \in 0 .. (ScanH - 1), solid \in BOOLEAN : ScanSpawn(x, y, solid)
    \/ \E e \in 0 .. (MaxScanEntities - 1), direction \in Directions, limit \in Limits,
          stop \in 0 .. 2 : ScanCall(e, direction, limit, stop)
    \/ ScanReturn

ScanSpec == ScanInit /\ [][ScanNext]_vars

(***************************************************************************)
(* Properties of scan (checked under ScanSpec).                            *)
(***************************************************************************)
\* the unit step of a direction, written out
StepOf(direction) ==
    [x |-> IF direction = Left THEN -1 ELSE IF direction = Right THEN 1 ELSE 0,
     y |-> IF direction = Up THEN -1 ELSE IF direction = Down THEN 1 ELSE 0]

InGrid(x, y) == x >= 0 /\ x < ScanW /\ y >= 0 /\ y < ScanH

\* the ray from (x, y) crosses exactly k floor cells nobody stands on and
\* then meets a solid cell
RayOf(x, y, direction, k) ==
    LET s == StepOf(direction)
    IN  /\ \A j \in 1 .. k :
              /\ InGrid(x + j * s.x, y + j * s.y)
              /\ ~cellAt(Game, x + j * s.x, y + j * s.y).solid
              /\ cellAt(Game, x + j * s.x, y + j * s.y).occupants = << >>
        /\ InGrid(x + (k + 1) * s.x, y + (k + 1) * s.y)
        /\ cellAt(Game, x + (k + 1) * s.x, y + (k + 1) * s.y).solid

\* C10: a scan with limit 0 whose ray crosses k empty floor cells and then
\* meets a solid cell, with a callback that returns false on each of them,
\* has invoked the callback on exactly those k cells, at the distances
\* 1, 2, ..., k in this order, not on the solid cell, and has returned false.
C10_ScanToWall ==
    \A k \in 0 .. (ScanW + ScanH) :
        (/\ scanned.kind = "scan" /\ scanned.limit = 0
         /\ RayOf(scanned.x, scanned.y, scanned.direction, k)
         /\ (scanned.stop = 0 \/ scanned.stop > k)) =>
            LET s == StepOf(scanned.direction)
            IN  /\ scanned.calls = [j \in 1 .. k |-> [x |-> scanned.x + j * s.x,
                                                      y |-> scanned.y + j * s.y,
                                                      distance |-> j]]
                /\ ~scanned.ret
                /\ ~scanned.oob

\* C10 witness: a scan with limit 0 has crossed two empty floor cells up to a
\* wall and made two callback invocations, while another entity stands on the grid.
C10_Witness ==
    /\ scanned.kind = "scan" /\ scanned.limit = 0 /\ scanned.stop = 0
    /\ RayOf(scanned.x, scanned.y, scanned.direction, 2)
    /\ Len(scanned.calls) = 2
    /\ entityIndexCounter = 2

(***************************************************************************)
(* The game: loadLevel, runFrame's input polling and gameTick.  Fields     *)
(* that only the renderer reads (sprite coordinates and colours, animator  *)
(* directions, frames and texture sequences, text) are left out of the     *)
(* components; whether a component is there is kept for every store.       *)
(***************************************************************************)
\* Enemy::State
Patrolling == 0
Alert      == 1
Aggressive == 2
Attack     == 3

\* a value-initialised component of each type
Default(T) ==
    CASE T = "MapCoords" -> MapCoords
      [] T = "Enemy"     -> [target |-> [x |-> UintMax, y |-> UintMax],
                             facingDirection |-> Down, state |-> Patrolling]
      [] T = "Neutral"   -> [wasFriendly |-> FALSE, cooldown |-> 3]
      [] T = "Door"      -> [open |-> FALSE]
      [] T = "InputIcon" -> [completed |-> FALSE]
      [] OTHER           -> 0

\* the capacity std::vector takes when emplace_back finds it full
grow(policy, cap) ==
    IF policy = "double"
    THEN (IF cap = 0 THEN 1 ELSE 2 * cap)
    ELSE (IF cap + (cap \div 2) < cap + 1 THEN cap + 1 ELSE cap + (cap \div 2))

\* component<T>().add(e) = v
addComponent(g, T, e, v) ==
    [g EXCEPT !.componentArrays[T] = add(@, e, v),
              !.capacity = IF T = "MapCoords" /\ Len(g.componentArrays[T].components) = @
                           THEN grow(g.growth, @)
                           ELSE @]

\* component<T>().remove(e)
removeComponent(g, T, e) ==
    IF atThrows(g.componentArrays[T], e) THEN fail(g, "out_of_range")
    ELSE [g EXCEPT !.componentArrays[T] = remove(@, e)]

\* component<T>().get(e) as a statement: throws when e has no T
touch(g, T, e) ==
    IF g.fault = "none" /\ atThrows(g.componentArrays[T], e) THEN fail(g, "out_of_range") ELSE g

\* component<T>().add(e) for each of the given types, in the order given
RECURSIVE addAll(_, _, _)
addAll(g, e, types) ==
    IF types = << >> THEN g
    ELSE addAll(addComponent(g, Head(types), e, Default(Head(types))), e, Tail(types))

\* the levels: reduced copies of the first two maps (walls all around, a D
\* on the border, one P; the second with an E out of the leader's column),
\* with as many MapCoords entities as the originals: 2 and 3
maps ==
    << [rows |-> << << "X", "D", "X" >>,
                    << "X", "P", "X" >>,
                    << "X", "X", "X" >> >>,
        entitiesNeeded |-> 1, levelText |-> 3],
       [rows |-> << << "X", "X", "D", "X" >>,
                    << "X", "E", "_", "X" >>,
                    << "X", "_", "P", "X" >>,
                    << "X", "X", "X", "X" >> >>,
        entitiesNeeded |-> 2, levelText |-> 3] >>

\* markers[ch]: the cells of the map holding ch, in the order loadLevel
\* meets them (row by row)
markers(map, ch) ==
    LET w   == Len(map.rows[1])
        all == [k \in 1 .. (w * Len(map.rows)) |-> << (k - 1) % w, (k - 1) \div w >>]
    IN  SelectSeq(all, LAMBDA p : map.rows[p[2] + 1][p[1] + 1] = ch)

RECURSIVE initPlayer(_, _)
initPlayer(g, positions) ==
    IF positions = << >> THEN g
    ELSE LET made(r) ==
                 moveEntity(addAll([r.g EXCEPT !.playerEntities = Append(@, r.index)], r.index,
                                   << "MapCoords", "Friendly", "Sprite", "Solid",
                                      "CharacterAnimator", "SequenceAnimator" >>),
                            r.index, Head(positions)[1], Head(positions)[2])
         IN  initPlayer(made(createEntity(g)), Tail(positions))

createEnemy(g, x, y, facingDirection) ==
    LET made(r) ==
            moveEntity(addAll(addComponent(addComponent(r.g, "MapCoords", r.index, MapCoords),
                                           "Enemy", r.index,
                                           [Default("Enemy") EXCEPT !.facingDirection = facingDirection]),
                              r.index, << "Sprite", "Solid", "CharacterAnimator", "SequenceAnimator" >>),
                       r.index, x, y)
    IN  made(createEntity(g))

\* loadLevel's loops over markers['E'], markers['T'], markers['D']
RECURSIVE spawnMarkers(_, _, _)
spawnMarkers(g, ch, positions) ==
    IF positions = << >> THEN g
    ELSE LET x == Head(positions)[1]
             y == Head(positions)[2]
             made(r, types) == moveEntity(addAll(r.g, r.index, types), r.index, x, y)
         IN  spawnMarkers(CASE ch = "E" -> createEnemy(g, x, y, Down)
                            [] ch = "T" -> made(createEntity(g), << "MapCoords", "PatrolPoint" >>)
                            [] ch = "D" -> made(createEntity(g), << "Door", "Solid", "Sprite", "MapCoords" >>),
                          ch, Tail(positions))

\* the loop over map.levelText
RECURSIVE addLevelText(_, _)
addLevelText(g, n) ==
    IF n = 0 THEN g
    ELSE LET made(r) == addComponent(r.g, "Text", r.index, 0)
         IN  addLevelText(made(createEntity(g)), n - 1)

loadLevel(g, index) ==
    LET map == maps[index + 1]
        g0  == [g EXCEPT !.componentArrays = [T \in Components |-> ComponentArray],
                         !.capacity = 0,
                         !.live = {},
                         !.freeEntities = << >>,
                         !.playerEntities = << >>,
                         !.inputQueue = << >>,
                         !.inputSpriteEntities = << >>,
                         !.gubgubCounterText = UintMax,
                         !.entityIndexCounter = 0,
                         !.cells = [row \in 1 .. Len(map.rows) |->
                                      [col \in 1 .. Len(map.rows[row]) |->
                                          [solid |-> map.rows[row][col] = "X", occupants |-> << >>]]]]
        P   == markers(map, "P")
        counter(r) == addComponent([r.g EXCEPT !.gubgubCounterText = r.index], "Text", r.index, 0)
        loaded(g6) == [g6 EXCEPT !.entitiesNeeded = map.entitiesNeeded, !.currentLevel = index]
    IN  loaded(addLevelText(
            counter(createEntity(
                spawnMarkers(
                    spawnMarkers(
                        spawnMarkers(IF P # << >> THEN initPlayer(g0, << P[1] >>) ELSE g0,
                                     "E", markers(map, "E")),
                        "T", markers(map, "T")),
                    "D", markers(map, "D")))),
            map.levelText))

\* std::find_if(occupants, component<T>().has): the position (from 1) of the
\* first such occupant, 0 for end()
RECURSIVE firstWith(_, _, _, _)
firstWith(g, occupants, T, k) ==
    IF k > Len(occupants) THEN 0
    ELSE IF has(g.componentArrays[T], occupants[k]) THEN k
    ELSE firstWith(g, occupants, T, k + 1)

\* the cells (at any distance) on which enemyLogic's first callback returns
\* true: those with a Friendly occupant
friendlyCells(g) ==
    { << x, y, d >> \in (0 .. (width(g) - 1)) \X (0 .. (height(g) - 1)) \X (1 .. (width(g) + height(g))) :
          anyHas(g, cellAt(g, x, y).occupants, "Friendly") }

\* an attack loop that leaves the members their Friendly tag
RECURSIVE stunKeepsFriendly(_, _)
stunKeepsFriendly(g, members) ==
    IF members = << >> \/ g.fault # "none" THEN g
    ELSE LET tmp == Head(members)
             animators(g2) ==
                 touch(removeComponent(g2, "CharacterAnimator", tmp), "SequenceAnimator", tmp)
             neutral(g1) ==
                 animators(addComponent(g1, "Neutral", tmp,
                                        [Default("Neutral") EXCEPT !.wasFriendly = TRUE]))
         IN  stunKeepsFriendly(neutral(g), Tail(members))

\* the loop of the attack over playerEntities from tmp on
RECURSIVE stun(_, _)
stun(g, members) ==
    IF members = << >> \/ g.fault # "none" THEN g
    ELSE LET tmp == Head(members)
             animators(g2) ==
                 touch(removeComponent(g2, "CharacterAnimator", tmp), "SequenceAnimator", tmp)
             neutral(g1) ==
                 IF g1.fault # "none" THEN g1
                 ELSE animators(addComponent(g1, "Neutral", tmp,
                                             [Default("Neutral") EXCEPT !.wasFriendly = TRUE]))
         IN  stun(neutral(removeComponent(g, "Friendly", tmp)), Tail(members))

\* an attack that stuns the members but leaves them in the chain
attackKeepsChain(g, target) ==
    LET it == find(g.playerEntities, target)
        k  == IF it = 0 THEN 1 ELSE it
    IN  IF it = Len(g.playerEntities) THEN g
        ELSE stun(g, SubSeq(g.playerEntities, k + 1, Len(g.playerEntities)))

\* the attack of an enemy that has found target
attack(g, target) ==
    LET it == find(g.playerEntities, target)
        k  == IF it = 0 THEN 1 ELSE it
        cut(g1) == IF g1.fault # "none" THEN g1
                   ELSE [g1 EXCEPT !.playerEntities = SubSeq(@, 1, k)]
    IN  IF it = Len(g.playerEntities) THEN g
        ELSE cut(stun(g, SubSeq(g.playerEntities, k + 1, Len(g.playerEntities))))

\* a verdict that gives a patrol point no priority
cellPriorityNoPoints(g, occupants) ==
    LET s == firstWith(g, occupants, "Solid", 1)
    IN  IF s # 0
        THEN (IF has(g.componentArrays["Friendly"], occupants[s])
              THEN [priority |-> 2, blocked |-> FALSE]
              ELSE [priority |-> 0, blocked |-> TRUE])
        ELSE [priority |-> 0, blocked |-> FALSE]

\* the patrol callback's verdict on a cell: its priority and whether it is blocked
cellPriority(g, occupants) ==
    LET s == firstWith(g, occupants, "Solid", 1)
    IN  IF s # 0
        THEN (IF has(g.componentArrays["Friendly"], occupants[s])
              THEN [priority |-> 2, blocked |-> FALSE]
              ELSE [priority |-> 0, blocked |-> TRUE])
        ELSE [priority |-> IF anyHas(g, occupants, "PatrolPoint") THEN 1 ELSE 0, blocked |-> FALSE]

\* the patrol callback applied to the invocations of one scan (direction n)
RECURSIVE patrolCalls(_, _, _, _)
patrolCalls(g, calls, n, best) ==
    IF calls = << >> THEN best
    ELSE LET c == Head(calls)
             v == cellPriority(g, cellAt(g, c.x, c.y).occupants)
             b == IF v.priority > best.priority
                     \/ (v.priority > 0 /\ v.priority = best.priority /\ c.distance < best.distance)
                  THEN [priority |-> v.priority, distance |-> c.distance, index |-> n]
                  ELSE IF best.priority = 0 /\ ~v.blocked /\ c.distance > best.distance
                  THEN [best EXCEPT !.distance = c.distance, !.index = n]
                  ELSE best
         IN  patrolCalls(g, Tail(calls), n, b)

\* scan directions whose third is the one behind
scanDirectionsBehind(facingDirection) ==
    << facingDirection, (facingDirection + 1) % 4, (facingDirection + 2) % 4 >>

\* scanDirections
scanDirections(facingDirection) ==
    << facingDirection, (facingDirection + 1) % 4, (facingDirection + 3) % 4 >>

\* the loop over scanDirections: bestPriority, bestDistance, bestIndex, and
\* whether a scan left the grid
RECURSIVE patrolScan(_, _, _, _, _)
patrolScan(g, x, y, facingDirection, n) ==
    IF n = 0 THEN [priority |-> 0, distance |-> 0, index |-> 0, oob |-> FALSE]
    ELSE LET result(after, oob) ==
                 [priority |-> after.priority, distance |-> after.distance, index |-> after.index,
                  oob |-> oob]
             merge(before, s) ==
                 result(patrolCalls(g, s.calls, n - 1,
                                    [priority |-> before.priority, distance |-> before.distance,
                                     index |-> before.index]),
                        before.oob \/ s.oob)
         IN  merge(patrolScan(g, x, y, facingDirection, n - 1),
                   scan(g, x, y, scanDirections(facingDirection)[n], 0, {}))

\* glm::sign
sign(n) == IF n < 0 THEN -1 ELSE IF n > 0 THEN 1 ELSE 0

\* a "validTarget" that looks at the terrain ahead and not at who is on it
validTargetTerrainOnly(g, enemy, mapCoords) ==
    LET toTargetX == enemy.target.x - mapCoords.x
        toTargetY == enemy.target.y - mapCoords.y
        dc        == directionCoords(enemy.facingDirection)
        delta     == clampDeltaToMap(g, mapCoords.x, mapCoords.y, dc[1], dc[2])
        cell      == cellAt(g, uadd(mapCoords.x, delta[1]), uadd(mapCoords.y, delta[2]))
    IN  /\ enemy.target.x < width(g) /\ enemy.target.y < height(g)
        /\ ~(toTargetX = 0 /\ toTargetY = 0)
        /\ dc[1] = sign(toTargetX) /\ dc[2] = sign(toTargetY)
        /\ ~cell.solid

\* "validTarget" once the tests of enemyLogic have run
validTarget(g, enemy, mapCoords) ==
    LET toTargetX == enemy.target.x - mapCoords.x
        toTargetY == enemy.target.y - mapCoords.y
        dc        == directionCoords(enemy.facingDirection)
        delta     == clampDeltaToMap(g, mapCoords.x, mapCoords.y, dc[1], dc[2])
        cell      == cellAt(g, uadd(mapCoords.x, delta[1]), uadd(mapCoords.y, delta[2]))
    IN  /\ enemy.target.x < width(g) /\ enemy.target.y < height(g)
        /\ ~(toTargetX = 0 /\ toTargetY = 0)
        /\ dc[1] = sign(toTargetX) /\ dc[2] = sign(toTargetY)
        /\ ~(cell.solid \/ anyHas(g, cell.occupants, "Solid"))

\* a patrol that goes to the chosen target cell at once
patrolLeap(g, enemy, id) ==
    LET mapCoords == get(g.componentArrays["MapCoords"], id)
        leap(best) ==
            LET facing == scanDirections(enemy.facingDirection)[best.index + 1]
                dc     == directionCoords(facing)
                x      == uadd(mapCoords.x, best.distance * dc[1])
                y      == uadd(mapCoords.y, best.distance * dc[2])
            IN  moveEntity([g EXCEPT !.componentArrays["Enemy"] =
                                        put(@, id, [target |-> [x |-> x, y |-> y],
                                                    facingDirection |-> facing, state |-> Patrolling])],
                           id, x, y)
    IN  leap(patrolScan(g, mapCoords.x, mapCoords.y, enemy.facingDirection, 3))

\* a patrol that leaves the enemy's state as it was
patrolKeepsState(g, enemy, id) ==
    LET mapCoords == get(g.componentArrays["MapCoords"], id)
        step(facing, target, forward) ==
            LET dc    == directionCoords(facing)
                delta == clampDeltaToMap(g, mapCoords.x, mapCoords.y, dc[1], dc[2])
                g1    == [g EXCEPT !.componentArrays["Enemy"] =
                                      put(@, id, [target |-> target, facingDirection |-> facing,
                                                  state |-> enemy.state])]
            IN  IF forward
                THEN moveEntity(g1, id, uadd(mapCoords.x, delta[1]), uadd(mapCoords.y, delta[2]))
                ELSE g1
        retarget(best) ==
            LET facing == scanDirections(enemy.facingDirection)[best.index + 1]
                dc     == directionCoords(facing)
            IN  IF best.oob THEN fail(g, "ub")
                ELSE step(facing,
                          [x |-> uadd(mapCoords.x, best.distance * dc[1]),
                           y |-> uadd(mapCoords.y, best.distance * dc[2])],
                          best.distance > 0 /\ facing = enemy.facingDirection)
    IN  IF validTarget(g, enemy, mapCoords)
        THEN step(enemy.facingDirection, enemy.target, TRUE)
        ELSE retarget(patrolScan(g, mapCoords.x, mapCoords.y, enemy.facingDirection, 3))

\* a patrol that steps forward after every rescan
patrolAlwaysForward(g, enemy, id) ==
    LET mapCoords == get(g.componentArrays["MapCoords"], id)
        step(facing, target, forward) ==
            LET dc    == directionCoords(facing)
                delta == clampDeltaToMap(g, mapCoords.x, mapCoords.y, dc[1], dc[2])
                g1    == [g EXCEPT !.componentArrays["Enemy"] =
                                      put(@, id, [target |-> target, facingDirection |-> facing,
                                                  state |-> Patrolling])]
            IN  IF forward
                THEN moveEntity(g1, id, uadd(mapCoords.x, delta[1]), uadd(mapCoords.y, delta[2]))
                ELSE g1
        retarget(best) ==
            LET facing == scanDirections(enemy.facingDirection)[best.index + 1]
                dc     == directionCoords(facing)
            IN  IF best.oob THEN fail(g, "ub")
                ELSE step(facing,
                          [x |-> uadd(mapCoords.x, best.distance * dc[1]),
                           y |-> uadd(mapCoords.y, best.distance * dc[2])],
                          TRUE)
    IN  IF validTarget(g, enemy, mapCoords)
        THEN step(enemy.facingDirection, enemy.target, TRUE)
        ELSE retarget(patrolScan(g, mapCoords.x, mapCoords.y, enemy.facingDirection, 3))

\* the branch of enemyLogic taken when the scan has not found the player and
\* the enemy was not Aggressive: pick a target if needed and step forward
patrol(g, enemy, id) ==
    LET mapCoords == get(g.componentArrays["MapCoords"], id)
        step(facing, target, forward) ==
            LET dc    == directionCoords(facing)
                delta == clampDeltaToMap(g, mapCoords.x, mapCoords.y, dc[1], dc[2])
                g1    == [g EXCEPT !.componentArrays["Enemy"] =
                                      put(@, id, [target |-> target, facingDirection |-> facing,
                                                  state |-> Patrolling])]
            IN  IF forward
                THEN moveEntity(g1, id, uadd(mapCoords.x, delta[1]), uadd(mapCoords.y, delta[2]))
                ELSE g1
        retarget(best) ==
            LET facing == scanDirections(enemy.facingDirection)[best.index + 1]
                dc     == directionCoords(facing)
            IN  IF best.oob THEN fail(g, "ub")
                ELSE step(facing,
                          [x |-> uadd(mapCoords.x, best.distance * dc[1]),
                           y |-> uadd(mapCoords.y, best.distance * dc[2])],
                          best.distance > 0 /\ facing = enemy.facingDirection)
    IN  IF validTarget(g, enemy, mapCoords)
        THEN step(enemy.facingDirection, enemy.target, TRUE)
        ELSE retarget(patrolScan(g, mapCoords.x, mapCoords.y, enemy.facingDirection, 3))

\* an escalation that leaves Attack for Patrolling
escalatedToPatrolling(state) ==
    IF state = Attack THEN Patrolling ELSE state + 1

\* "found player": the state after the state
escalated(state) ==
    IF state = Attack THEN Alert ELSE state + 1

enemyLogic(g, id) ==
    LET mapCoords == get(g.componentArrays["MapCoords"], id)
        enemy     == get(g.componentArrays["Enemy"], id)
        animate(g1) ==
            IF g1.fault # "none" THEN g1
            ELSE IF atThrows(g1.componentArrays["CharacterAnimator"], id) THEN fail(g1, "out_of_range")
            ELSE g1
        escalate(seen) ==
            LET occupants == cellAt(g, seen.x, seen.y).occupants
                state     == escalated(enemy.state)
                found     == [g EXCEPT !.componentArrays["Enemy"] =
                                          put(@, id, [enemy EXCEPT !.state = state])]
            IN  IF state = Attack
                THEN attack(found, occupants[firstWith(g, occupants, "Friendly", 1)])
                ELSE found
        react(look) ==
            IF look.oob THEN fail(g, "ub")
            ELSE animate(IF look.ret THEN escalate(look.calls[Len(look.calls)])
                         ELSE IF enemy.state = Aggressive
                         THEN [g EXCEPT !.componentArrays["Enemy"] =
                                           put(@, id, [enemy EXCEPT !.state = Alert])]
                         ELSE patrol(g, enemy, id))
    IN  IF atThrows(g.componentArrays["MapCoords"], id) THEN fail(g, "out_of_range")
        ELSE react(scan(g, mapCoords.x, mapCoords.y, enemy.facingDirection, 0, friendlyCells(g)))

\* while (!component<Transient>().entities.empty()) destroyEntity(front)
RECURSIVE destroyTransients(_)
destroyTransients(g) ==
    IF g.fault # "none" \/ g.componentArrays["Transient"].entities = << >> THEN g
    ELSE destroyTransients(destroyEntity(g, g.componentArrays["Transient"].entities[1]))

\* a gameTick that takes the front input icon away, completed or not
popIconAlways(g) ==
    LET front == Head(g.inputSpriteEntities)
        popped(g1) == IF g1.fault # "none" THEN g1 ELSE [g1 EXCEPT !.inputSpriteEntities = Tail(@)]
    IN  IF g.fault # "none" \/ g.inputSpriteEntities = << >> THEN g
        ELSE IF atThrows(g.componentArrays["InputIcon"], front) THEN fail(g, "out_of_range")
        ELSE popped(destroyEntity(g, front))

\* gameTick: the completed input icon goes
popIcon(g) ==
    LET front == Head(g.inputSpriteEntities)
        popped(g1) == IF g1.fault # "none" THEN g1 ELSE [g1 EXCEPT !.inputSpriteEntities = Tail(@)]
    IN  IF g.fault # "none" \/ g.inputSpriteEntities = << >> THEN g
        ELSE IF atThrows(g.componentArrays["InputIcon"], front) THEN fail(g, "out_of_range")
        ELSE IF get(g.componentArrays["InputIcon"], front).completed
        THEN popped(destroyEntity(g, front))
        ELSE g

\* a choice of the occupant that lets the leader through a Solid one
RECURSIVE firstObstacleNotSolid(_, _, _)
firstObstacleNotSolid(g, occupants, k) ==
    IF k > Len(occupants) THEN [kind |-> "free", target |-> UintMax]
    ELSE IF has(g.componentArrays["Enemy"], occupants[k]) THEN [kind |-> "attack", target |-> occupants[k]]
    ELSE IF has(g.componentArrays["Neutral"], occupants[k]) THEN [kind |-> "capture", target |-> occupants[k]]
    ELSE firstObstacleNotSolid(g, occupants, k + 1)

\* the occupant the leader's move is decided on: the first one that is
\* Enemy, Neutral or Solid
RECURSIVE firstObstacle(_, _, _)
firstObstacle(g, occupants, k) ==
    IF k > Len(occupants) THEN [kind |-> "free", target |-> UintMax]
    ELSE IF has(g.componentArrays["Enemy"], occupants[k]) THEN [kind |-> "attack", target |-> occupants[k]]
    ELSE IF has(g.componentArrays["Neutral"], occupants[k]) THEN [kind |-> "capture", target |-> occupants[k]]
    ELSE IF has(g.componentArrays["Solid"], occupants[k]) THEN [kind |-> "blocked", target |-> UintMax]
    ELSE firstObstacle(g, occupants, k + 1)

\* what the leader's move meets once the front input event is taken
leaderMeets(g, direction) ==
    LET coords == get(g.componentArrays["MapCoords"], Head(g.playerEntities))
        dc     == directionCoords(direction)
        delta  == clampDeltaToMap(g, coords.x, coords.y, dc[1], dc[2])
        cell   == cellAt(g, uadd(coords.x, delta[1]), uadd(coords.y, delta[2]))
    IN  IF cell.solid THEN [kind |-> "solid", target |-> UintMax]
        ELSE firstObstacle(g, cell.occupants, 1)

\* what coords.x + dx, coords.y + dy can give once component<MapCoords>().add
\* has moved the components to new storage and "coords" dangles: the old
\* value, or any other pair (one pair stands for all those outside the grid)
StaleReads(g) ==
    {<< UintMax, UintMax >>} \cup ((0 .. (width(g) - 1)) \X (0 .. (height(g) - 1)))

\* the attack branch of the leader's move; stale is what coords.x + dx,
\* coords.y + dy give if the storage of the MapCoords components has moved
bonk(g, target, x, y, stale) ==
    LET place(r) ==
            LET moved == Len(r.g.componentArrays["MapCoords"].components) = r.g.capacity
            IN  moveEntity(addAll(r.g, r.index, << "MapCoords", "Sprite", "SequenceAnimator", "Transient" >>),
                           r.index,
                           IF moved THEN stale[1] ELSE x,
                           IF moved THEN stale[2] ELSE y)
        bonker(g4) == IF g4.fault # "none" THEN g4 ELSE place(createEntity(g4))
        animators(g2) ==
            touch(removeComponent(g2, "CharacterAnimator", target), "SequenceAnimator", target)
        neutral(g1) ==
            IF g1.fault # "none" THEN g1
            ELSE animators(addComponent(g1, "Neutral", target,
                                        [Default("Neutral") EXCEPT !.wasFriendly = FALSE]))
    IN  bonker(neutral(removeComponent(g, "Enemy", target)))

\* a chain that follows from the head on: each member after the one ahead has moved
RECURSIVE followFromHead(_, _)
followFromHead(g, n) ==
    LET moved(g1) ==
            IF g1.fault # "none" THEN g1
            ELSE IF atThrows(g1.componentArrays["MapCoords"], g1.playerEntities[n]) THEN fail(g1, "out_of_range")
            ELSE moveEntity(g1, g1.playerEntities[n + 1],
                            get(g1.componentArrays["MapCoords"], g1.playerEntities[n]).x,
                            get(g1.componentArrays["MapCoords"], g1.playerEntities[n]).y)
    IN  IF n = 0 \/ g.fault # "none" THEN g
        ELSE moved(followFromHead(g, n - 1))

\* for (n = playerEntities.size() - 1; n > 0; --n) moveEntity(playerEntities[n], coords of n - 1)
RECURSIVE follow(_, _)
follow(g, n) ==
    IF n = 0 \/ g.fault # "none" THEN g
    ELSE LET next == g.playerEntities[n]
         IN  IF atThrows(g.componentArrays["MapCoords"], next) THEN fail(g, "out_of_range")
             ELSE LET nextCoords == get(g.componentArrays["MapCoords"], next)
                  IN  follow(moveEntity(g, g.playerEntities[n + 1], nextCoords.x, nextCoords.y), n - 1)

\* a move branch that looks for the open door on the cell the leader has left
advanceFromDoor(g, meets, x, y) ==
    LET joined(c1) ==
            IF c1.fault # "none" THEN c1
            ELSE [addAll(c1, meets.target, << "Friendly", "CharacterAnimator" >>)
                     EXCEPT !.playerEntities = Append(@, meets.target)]
        chain(g1) == follow(g1, Len(g1.playerEntities) - 1)
        step(g2) == IF g2.fault # "none" THEN g2 ELSE moveEntity(g2, Head(g2.playerEntities), x, y)
        door(g3) ==
            LET coords == get(g.componentArrays["MapCoords"], Head(g.playerEntities))
                occ    == cellAt(g3, coords.x, coords.y).occupants
                it     == firstWith(g3, occ, "Door", 1)
            IN  IF g3.fault # "none" THEN g3
                ELSE IF it # 0 /\ get(g3.componentArrays["Door"], occ[it]).open
                              /\ g3.currentLevel + 1 < Len(maps)
                THEN loadLevel(g3, g3.currentLevel + 1)
                ELSE g3
    IN  door(step(chain(IF meets.kind = "capture"
                        THEN joined(removeComponent(g, "Neutral", meets.target))
                        ELSE g)))

\* a move branch whose capture puts the captured entity at the head of the chain
advanceCapturedFirst(g, meets, x, y) ==
    LET joined(c1) ==
            IF c1.fault # "none" THEN c1
            ELSE [addAll(c1, meets.target, << "Friendly", "CharacterAnimator" >>)
                     EXCEPT !.playerEntities = << meets.target >> \o @]
        chain(g1) == follow(g1, Len(g1.playerEntities) - 1)
        step(g2) == IF g2.fault # "none" THEN g2 ELSE moveEntity(g2, Head(g2.playerEntities), x, y)
        door(g3) ==
            LET coords == get(g3.componentArrays["MapCoords"], Head(g3.playerEntities))
                occ    == cellAt(g3, coords.x, coords.y).occupants
                it     == firstWith(g3, occ, "Door", 1)
            IN  IF g3.fault # "none" THEN g3
                ELSE IF it # 0 /\ get(g3.componentArrays["Door"], occ[it]).open
                              /\ g3.currentLevel + 1 < Len(maps)
                THEN loadLevel(g3, g3.currentLevel + 1)
                ELSE g3
    IN  door(step(chain(IF meets.kind = "capture"
                        THEN joined(removeComponent(g, "Neutral", meets.target))
                        ELSE g)))

\* the move branch: capture, the chain follows, the leader steps, and the
\* level changes on an open door
\* a move whose capture puts the entity on the chain without the Friendly tag
advanceUntagged(g, meets, x, y) ==
    LET joined(c1) ==
            IF c1.fault # "none" THEN c1
            ELSE [addAll(c1, meets.target, << "CharacterAnimator" >>)
                     EXCEPT !.playerEntities = Append(@, meets.target)]
        chain(g1) == follow(g1, Len(g1.playerEntities) - 1)
        step(g2) == IF g2.fault # "none" THEN g2 ELSE moveEntity(g2, Head(g2.playerEntities), x, y)
        door(g3) ==
            LET coords == get(g3.componentArrays["MapCoords"], Head(g3.playerEntities))
                occ    == cellAt(g3, coords.x, coords.y).occupants
                it     == firstWith(g3, occ, "Door", 1)
            IN  IF g3.fault # "none" THEN g3
                ELSE IF it # 0 /\ get(g3.componentArrays["Door"], occ[it]).open
                              /\ g3.currentLevel + 1 < Len(maps)
                THEN loadLevel(g3, g3.currentLevel + 1)
                ELSE g3
    IN  door(step(chain(IF meets.kind = "capture"
                        THEN joined(removeComponent(g, "Neutral", meets.target))
                        ELSE g)))

advance(g, meets, x, y) ==
    LET joined(c1) ==
            IF c1.fault # "none" THEN c1
            ELSE [addAll(c1, meets.target, << "Friendly", "CharacterAnimator" >>)
                     EXCEPT !.playerEntities = Append(@, meets.target)]
        chain(g1) == follow(g1, Len(g1.playerEntities) - 1)
        step(g2) == IF g2.fault # "none" THEN g2 ELSE moveEntity(g2, Head(g2.playerEntities), x, y)
        door(g3) ==
            LET coords == get(g3.componentArrays["MapCoords"], Head(g3.playerEntities))
                occ    == cellAt(g3, coords.x, coords.y).occupants
                it     == firstWith(g3, occ, "Door", 1)
            IN  IF g3.fault # "none" THEN g3
                ELSE IF it # 0 /\ get(g3.componentArrays["Door"], occ[it]).open
                              /\ g3.currentLevel + 1 < Len(maps)
                THEN loadLevel(g3, g3.currentLevel + 1)
                ELSE g3
    IN  door(step(chain(IF meets.kind = "capture"
                        THEN joined(removeComponent(g, "Neutral", meets.target))
                        ELSE g)))

\* gameTick: the front input event is consumed
consumeInput(g, stale) ==
    LET event  == Head(g.inputQueue)
        g0     == [g EXCEPT !.inputQueue = Tail(@)]
        front  == Head(g.inputSpriteEntities)
        g1     == [g0 EXCEPT !.componentArrays["InputIcon"] =
                                 put(@, front, [completed |-> TRUE])]
        leader == Head(g.playerEntities)
        coords == get(g.componentArrays["MapCoords"], leader)
        dc     == directionCoords(event)
        delta  == clampDeltaToMap(g, coords.x, coords.y, dc[1], dc[2])
        x      == uadd(coords.x, delta[1])
        y      == uadd(coords.y, delta[2])
        act(meets) ==
            IF meets.kind \in {"solid", "blocked"} THEN g1
            ELSE IF meets.kind = "attack" THEN bonk(g1, meets.target, x, y, stale)
            ELSE advance(g1, meets, x, y)
    IN  IF g.fault # "none" \/ g.inputQueue = << >> THEN g
        ELSE IF g.inputSpriteEntities = << >> THEN fail(g0, "ub")
        ELSE IF atThrows(g.componentArrays["InputIcon"], front) THEN fail(g0, "out_of_range")
        ELSE IF \E k \in 1 .. Len(g.inputSpriteEntities) :
                    atThrows(g.componentArrays["Sprite"], g.inputSpriteEntities[k])
        THEN fail(g1, "out_of_range")
        ELSE IF g.playerEntities = << >> THEN g1
        ELSE IF atThrows(g.componentArrays["CharacterAnimator"], leader)
                \/ atThrows(g.componentArrays["MapCoords"], leader)
        THEN fail(g1, "out_of_range")
        ELSE act(leaderMeets(g1, event))

\* does the tick about to consume the front input event read "coords" after
\* component<MapCoords>().add(bonker) has reallocated
readsMovedStorage(g) ==
    /\ g.fault = "none"
    /\ g.inputQueue # << >> /\ g.inputSpriteEntities # << >> /\ g.playerEntities # << >>
    /\ ~atThrows(g.componentArrays["MapCoords"], Head(g.playerEntities))
    /\ leaderMeets(g, Head(g.inputQueue)).kind = "attack"
    /\ Len(g.componentArrays["MapCoords"].components) = g.capacity

\* gameTick: the followers are turned towards the member ahead
faceAhead(g) ==
    IF g.fault = "none"
       /\ \E k \in 2 .. Len(g.playerEntities) :
             \/ atThrows(g.componentArrays["MapCoords"], g.playerEntities[k])
             \/ atThrows(g.componentArrays["MapCoords"], g.playerEntities[k - 1])
             \/ atThrows(g.componentArrays["CharacterAnimator"], g.playerEntities[k])
    THEN fail(g, "out_of_range")
    ELSE g

\* a door check that sets the flag and leaves the Solid tag alone
RECURSIVE doorPassKeepSolid(_, _)
doorPassKeepSolid(g, n) ==
    IF g.fault # "none" \/ n >= Len(g.componentArrays["Door"].components) THEN g
    ELSE doorPassKeepSolid([g EXCEPT !.componentArrays["Door"].components[n + 1] =
                                        [open |-> Len(g.playerEntities) = g.entitiesNeeded]],
                           n + 1)

\* component<Door>().forEach from slot n on
RECURSIVE doorPass(_, _)
doorPass(g, n) ==
    IF g.fault # "none" \/ n >= Len(g.componentArrays["Door"].components) THEN g
    ELSE LET id   == At(g.componentArrays["Door"].entities, n)
             door == At(g.componentArrays["Door"].components, n)
             open == Len(g.playerEntities) = g.entitiesNeeded
             g1   == [g EXCEPT !.componentArrays["Door"].components[n + 1] = [open |-> open]]
             g2   == IF open THEN removeComponent(g1, "Solid", id)
                     ELSE addComponent(g1, "Solid", id, 0)
         IN  doorPass(IF open # door.open THEN touch(g2, "Sprite", id) ELSE g, n + 1)

\* a Neutral pass that turns an entity back as soon as its cooldown is 1
RECURSIVE neutralPassEarly(_, _)
neutralPassEarly(g, n) ==
    IF g.fault # "none" \/ n >= Len(g.componentArrays["Neutral"].components) THEN g
    ELSE LET id      == At(g.componentArrays["Neutral"].entities, n)
             neutral == At(g.componentArrays["Neutral"].components, n)
             back    == addAll(g, id, << "Enemy", "CharacterAnimator" >>)
             later   == [back EXCEPT !.componentArrays["Neutral"] = removeLater(@, id)]
             less    == [g EXCEPT !.componentArrays["Neutral"].components[n + 1].cooldown = @ - 1]
         IN  neutralPassEarly(IF neutral.cooldown <= 1 THEN later ELSE less, n + 1)

\* component<Neutral>().forEach from slot n on, up to the deferred removals
RECURSIVE neutralPass(_, _)
neutralPass(g, n) ==
    IF g.fault # "none" \/ n >= Len(g.componentArrays["Neutral"].components) THEN g
    ELSE LET id      == At(g.componentArrays["Neutral"].entities, n)
             neutral == At(g.componentArrays["Neutral"].components, n)
             back    == addAll(g, id, << "Enemy", "CharacterAnimator" >>)
             later   == [back EXCEPT !.componentArrays["Neutral"] = removeLater(@, id)]
             less    == [g EXCEPT !.componentArrays["Neutral"].components[n + 1].cooldown = @ - 1]
         IN  neutralPass(IF neutral.cooldown = 0 THEN later
                         ELSE IF neutral.cooldown = 1 /\ neutral.wasFriendly
                         THEN touch(less, "SequenceAnimator", id)
                         ELSE less,
                         n + 1)

\* the end of a forEach over T: the deferred removals
endForEach(g, T) ==
    LET flushed(f) == IF f.threw THEN fail([g EXCEPT !.componentArrays[T] = f.store], "out_of_range")
                      ELSE [g EXCEPT !.componentArrays[T] = f.store]
    IN  IF g.fault # "none" THEN g
        ELSE flushed(flush(g.componentArrays[T]))

\* component<Enemy>().forEach from slot n on
RECURSIVE enemyPass(_, _)
enemyPass(g, n) ==
    IF g.fault # "none" \/ n >= Len(g.componentArrays["Enemy"].components) THEN g
    ELSE enemyPass(enemyLogic(g, At(g.componentArrays["Enemy"].entities, n)), n + 1)

\* gameTick up to the Enemy forEach
tickToEnemies(g, stale) ==
    LET rest(g1) ==
            endForEach(neutralPass(doorPass(touch(faceAhead(g1), "Text", g1.gubgubCounterText),
                                            0),
                                   0),
                       "Neutral")
    IN  rest(consumeInput(popIcon(destroyTransients(g)), stale))

gameTick(g, stale) == enemyPass(tickToEnemies(g, stale), 0)

\* a pressed key that goes to the front of the queue
pressKeyFirst(g, direction) ==
    LET g1 == [g EXCEPT !.inputQueue = << direction >> \o @]
        icon(r) == [addAll(r.g, r.index, << "Sprite", "InputIcon" >>)
                       EXCEPT !.inputSpriteEntities = Append(@, r.index)]
    IN  IF g.inputSpriteEntities # << >>
           /\ atThrows(g.componentArrays["InputIcon"], Head(g.inputSpriteEntities))
        THEN fail(g1, "out_of_range")
        ELSE icon(createEntity(g1))

\* runFrame: one pressed key
pressKey(g, direction) ==
    LET g1 == [g EXCEPT !.inputQueue = Append(@, direction)]
        icon(r) == [addAll(r.g, r.index, << "Sprite", "InputIcon" >>)
                       EXCEPT !.inputSpriteEntities = Append(@, r.index)]
    IN  IF g.inputSpriteEntities # << >>
           /\ atThrows(g.componentArrays["InputIcon"], Head(g.inputSpriteEntities))
        THEN fail(g1, "out_of_range")
        ELSE icon(createEntity(g1))

\* runFrame: the loop over directionInputMappings (a std::map: in the order
\* of the enum), pressed being the keys that went down since the last frame
RECURSIVE pollInput(_, _, _)
pollInput(g, directions, pressed) ==
    IF directions = << >> \/ g.fault # "none" THEN g
    ELSE pollInput(IF Head(directions) \in pressed THEN pressKey(g, Head(directions)) ELSE g,
                   Tail(directions), pressed)

(***************************************************************************)
(* The running game.  init() loads level 0; every step is one runFrame     *)
(* call, given the keys pressed since the last one and whether the tick    *)
(* timer has run out.  What runFrame computes for the renderer is left     *)
(* out.  The build decides how vectors grow.                               *)
(***************************************************************************)
\* keys are pressed only while they keep the input queue within MaxQueue events
MaxQueue == 1

Init ==
    /\ StoreIdle
    /\ op = Call("init", 0, FALSE, 0)
    /\ scanned = NoScan
    /\ manager = InputManager
    /\ \E policy \in {"double", "half"} :
          SetGameInit(loadLevel([GameLogic(1, 1) EXCEPT !.growth = policy], 0))

RunFrame(pressed, tick, stale) ==
    LET frame(polled) == SetGame(IF tick THEN gameTick(polled, stale) ELSE polled)
    IN  /\ fault = "none"
        /\ Len(inputQueue) + Cardinality(pressed) <= MaxQueue
        /\ frame(pollInput(Game, << Up, Left, Down, Right >>, pressed))
        /\ op' = Call("runFrame", 0, fault' # "none", 0)
        /\ UNCHANGED << storeVars, scanned, manager >>

\* the reads a frame can make through a dangling "coords": one placeholder
\* when it makes none
Stales(pressed, tick) ==
    IF tick /\ readsMovedStorage(popIcon(destroyTransients(
                   pollInput(Game, << Up, Left, Down, Right >>, pressed))))
    THEN StaleReads(Game)
    ELSE {<< UintMax, UintMax >>}

Next ==
    \E pressed \in SUBSET Directions, tick \in BOOLEAN :
        \E stale \in Stales(pressed, tick) : RunFrame(pressed, tick, stale)

Spec == Init /\ [][Next]_vars

(***************************************************************************)
(* Properties of the running game (checked under Spec).                    *)
(***************************************************************************)
\* how often e is on the occupant list of cell (x, y)
TimesOn(x, y, e) ==
    Cardinality({k \in 1 .. Len(cellAt(Game, x, y).occupants) : cellAt(Game, x, y).occupants[k] = e})

\* C8: after level load and after every tick that ends normally, every entity
\* with MapCoords is exactly once on the occupant list of the cell at its
\* MapCoords and on no other list, and every handle on an occupant list is an
\* entity whose MapCoords are that cell.
C8_GridConsistent ==
    fault = "none" =>
        /\ \A k \in 1 .. Len(componentArrays["MapCoords"].entities) :
              LET e == componentArrays["MapCoords"].entities[k]
                  c == componentArrays["MapCoords"].components[k]
              IN  /\ c.x < width(Game) /\ c.y < height(Game)
                  /\ \A x \in 0 .. (width(Game) - 1), y \in 0 .. (height(Game) - 1) :
                        TimesOn(x, y, e) = IF x = c.x /\ y = c.y THEN 1 ELSE 0
        /\ \A x \in 0 .. (width(Game) - 1), y \in 0 .. (height(Game) - 1) :
              \A k \in 1 .. Len(cellAt(Game, x, y).occupants) :
                  LET e == cellAt(Game, x, y).occupants[k]
                  IN  /\ has(componentArrays["MapCoords"], e)
                      /\ get(componentArrays["MapCoords"], e) = [x |-> x, y |-> y]

(***************************************************************************)
(* Enemies on their own: a walled arena on which chain members, enemies    *)
(* and patrol points are put as loadLevel and the captures put them, and   *)
(* then enemyLogic runs on any enemy and the leader walks, in any order.   *)
(***************************************************************************)
MaxChain == 3
MaxEnemies == 1
MaxPoints == 2
MaxSpawned == 5

\* the arena: walls all around, as on every map
arena ==
    << << "X", "X", "X", "X", "X" >>,
       << "X", "_", "_", "_", "X" >>,
       << "X", "_", "_", "_", "X" >>,
       << "X", "X", "X", "X", "X" >> >>

ArenaX == 0 .. (Len(arena[1]) - 1)
ArenaY == 0 .. (Len(arena) - 1)

EnemyInit ==
    /\ StoreIdle
    /\ op = Call("init", 0, FALSE, 0)
    /\ scanned = NoScan
    /\ manager = InputManager
    /\ SetGameInit([GameLogic(Len(arena[1]), Len(arena)) EXCEPT
                       !.cells = [row \in 1 .. Len(arena) |->
                                     [col \in 1 .. Len(arena[row]) |->
                                         [solid |-> arena[row][col] = "X", occupants |-> << >>]]]])

\* entities are put on the arena before anything moves, on free floor cells,
\* in loadLevel's order: the chain, the enemies, the patrol points
Spawning(x, y) ==
    /\ op.kind \in {"init", "spawn"}
    /\ Cardinality(live) < MaxSpawned
    /\ ~cellAt(Game, x, y).solid
    /\ cellAt(Game, x, y).occupants = << >>

\* a chain member: the leader as loadLevel makes it, a follower with the
\* components a captured entity has
SpawnMember(x, y) ==
    /\ Spawning(x, y)
    /\ Len(playerEntities) < MaxChain
    /\ componentArrays["Enemy"].entities = << >>
    /\ componentArrays["PatrolPoint"].entities = << >>
    /\ SetGame(initPlayer(Game, << << x, y >> >>))
    /\ op' = Call("spawn", 0, FALSE, 0)
    /\ UNCHANGED << storeVars, scanned, manager >>

SpawnEnemy(x, y) ==
    /\ Spawning(x, y)
    /\ Len(componentArrays["Enemy"].entities) < MaxEnemies
    /\ componentArrays["PatrolPoint"].entities = << >>
    /\ SetGame(createEnemy(Game, x, y, Down))
    /\ op' = Call("spawn", 0, FALSE, 0)
    /\ UNCHANGED << storeVars, scanned, manager >>

SpawnPoint(x, y) ==
    /\ Spawning(x, y)
    /\ Len(componentArrays["PatrolPoint"].entities) < MaxPoints
    /\ SetGame(spawnMarkers(Game, "T", << << x, y >> >>))
    /\ op' = Call("spawn", 0, FALSE, 0)
    /\ UNCHANGED << storeVars, scanned, manager >>

\* the Enemy forEach callback on one enemy
EnemyStep(id) ==
    /\ fault = "none"
    /\ has(componentArrays["Enemy"], id)
    /\ SetGame(enemyLogic(Game, id))
    /\ LET mapCoords == get(componentArrays["MapCoords"], id)
           enemy     == get(componentArrays["Enemy"], id)
           look      == scan(Game, mapCoords.x, mapCoords.y, enemy.facingDirection, 0,
                             friendlyCells(Game))
           rescans   == enemy.state # Aggressive /\ ~validTarget(Game, enemy, mapCoords)
       IN  op' = Call("enemyLogic", id, fault' # "none",
                      IF look.ret THEN 1 ELSE IF rescans THEN 2 ELSE 0)
    /\ UNCHANGED << storeVars, scanned, manager >>

\* gameTick's input event when the leader's destination is free
Walk(direction) ==
    /\ fault = "none"
    /\ playerEntities # << >>
    /\ LET coords == get(componentArrays["MapCoords"], Head(playerEntities))
           dc     == directionCoords(direction)
           delta  == clampDeltaToMap(Game, coords.x, coords.y, dc[1], dc[2])
           meets  == leaderMeets(Game, direction)
       IN  /\ meets.kind = "free"
           /\ SetGame(advance(Game, meets, uadd(coords.x, delta[1]), uadd(coords.y, delta[2])))
    /\ op' = Call("walk", direction, fault' # "none", 0)
    /\ UNCHANGED << storeVars, scanned, manager >>

EnemyNext ==
    \/ \E x \in ArenaX, y \in ArenaY : SpawnMember(x, y)
    \/ \E x \in ArenaX, y \in ArenaY : SpawnEnemy(x, y)
    \/ \E x \in ArenaX, y \in ArenaY : SpawnPoint(x, y)
    \/ \E id \in 0 .. (MaxSpawned - 1) : EnemyStep(id)
    \/ \E direction \in Directions : Walk(direction)

EnemySpec == EnemyInit /\ [][EnemyNext]_vars

(***************************************************************************)
(* Properties of enemyLogic (checked under EnemySpec).                     *)
(***************************************************************************)
\* the cell k steps ahead of (x, y) in a direction
Ahead(c, direction, k) ==
    [x |-> c.x + k * StepOf(direction).x, y |-> c.y + k * StepOf(direction).y]

OnArena(p) == p.x \in ArenaX /\ p.y \in ArenaY

\* a cell a look passes: floor with no Solid occupant
Passable(p) ==
    /\ OnArena(p)
    /\ ~cellAt(Game, p.x, p.y).solid
    /\ \A n \in 1 .. Len(cellAt(Game, p.x, p.y).occupants) :
          ~has(componentArrays["Solid"], cellAt(Game, p.x, p.y).occupants[n])

\* a floor cell with a Friendly occupant
FriendlyOn(p) ==
    /\ OnArena(p)
    /\ ~cellAt(Game, p.x, p.y).solid
    /\ \E n \in 1 .. Len(cellAt(Game, p.x, p.y).occupants) :
          has(componentArrays["Friendly"], cellAt(Game, p.x, p.y).occupants[n])

\* the enemy's forward scan finds a Friendly: at distance k, past passable cells
DetectsAt(id, k) ==
    LET c == get(componentArrays["MapCoords"], id)
        d == get(componentArrays["Enemy"], id).facingDirection
    IN  /\ FriendlyOn(Ahead(c, d, k))
        /\ \A j \in 1 .. (k - 1) : Passable(Ahead(c, d, j)) /\ ~FriendlyOn(Ahead(c, d, j))

Detects(id) == \E k \in 1 .. (Len(arena) + Len(arena[1])) : DetectsAt(id, k)

StateOf(id) == get(componentArrays["Enemy"], id).state

\* C11: in a tick in which its forward scan finds a Friendly, an enemy goes
\* Patrolling -> Alert -> Aggressive -> Attack -> Alert: its state after such a
\* tick is never Patrolling, and Attack comes back on every third such tick.
C11_EscalationCycle ==
    [][(op'.kind = "enemyLogic" /\ Detects(op'.e)) =>
          /\ fault' = "none"
          /\ get(componentArrays'["Enemy"], op'.e).state =
                CASE StateOf(op'.e) = Patrolling -> Alert
                  [] StateOf(op'.e) = Alert -> Aggressive
                  [] StateOf(op'.e) = Aggressive -> Attack
                  [] StateOf(op'.e) = Attack -> Alert]_vars

\* an enemy that has just gone from Attack back to Alert with a Friendly in sight
C11_Witness ==
    /\ op.kind = "enemyLogic" /\ fault = "none"
    /\ has(componentArrays["Enemy"], op.e)
    /\ StateOf(op.e) = Alert
    /\ Detects(op.e)
    /\ Len(playerEntities) = 1
    /\ \E n \in 1 .. Len(componentArrays["Neutral"].entities) :
          componentArrays["Neutral"].components[n].wasFriendly

CoordsOf(id) == get(componentArrays["MapCoords"], id)

\* C12: a tick leaves an enemy where it is or moves it by exactly one cell
\* along one axis; it leaves it where it is when its forward scan finds a
\* Friendly and when it de-escalates from Aggressive to Alert.
C12_EnemyStepsOneCell ==
    [][op'.kind = "enemyLogic" =>
          LET before == CoordsOf(op'.e)
              after  == get(componentArrays'["MapCoords"], op'.e)
              dx     == after.x - before.x
              dy     == after.y - before.y
          IN  /\ \/ dx = 0 /\ dy \in {-1, 0, 1}
                 \/ dy = 0 /\ dx \in {-1, 1}
              /\ (Detects(op'.e) \/ StateOf(op'.e) = Aggressive) => (dx = 0 /\ dy = 0)]_vars

\* an enemy that has just walked onto a patrol point (nothing is put on an
\* occupied cell)
C12_Witness ==
    /\ op.kind = "enemyLogic" /\ fault = "none"
    /\ has(componentArrays["Enemy"], op.e)
    /\ StateOf(op.e) = Patrolling
    /\ \E n \in 1 .. Len(componentArrays["PatrolPoint"].entities) :
          CoordsOf(componentArrays["PatrolPoint"].entities[n]) = CoordsOf(op.e)

(***************************************************************************)
(* Doors on their own: a level is loaded, the chain grows and shrinks, and *)
(* the door check of gameTick runs, in any order.                          *)
(***************************************************************************)
MaxDoorLive == 10

DoorInit ==
    /\ StoreIdle
    /\ op = Call("loadLevel", 0, FALSE, 0)
    /\ scanned = NoScan
    /\ manager = InputManager
    /\ SetGameInit(loadLevel(GameLogic(1, 1), 0))

DoorLoad(index) ==
    /\ fault = "none"
    /\ SetGame(loadLevel(Game, index))
    /\ op' = Call("loadLevel", index, fault' # "none", 0)
    /\ UNCHANGED << storeVars, scanned, manager >>

\* the chain gets a member, with the components a captured entity has, on
\* the leader's cell
DoorJoin ==
    /\ fault = "none"
    /\ playerEntities # << >>
    /\ Len(playerEntities) < MaxChain
    /\ Cardinality(live) < MaxDoorLive
    /\ LET coords == get(componentArrays["MapCoords"], Head(playerEntities))
       IN  SetGame(initPlayer(Game, << << coords.x, coords.y >> >>))
    /\ op' = Call("join", 0, fault' # "none", 0)
    /\ UNCHANGED << storeVars, scanned, manager >>

\* an enemy's attack on a chain member
DoorLose(target) ==
    /\ fault = "none"
    /\ find(playerEntities, target) < Len(playerEntities)
    /\ SetGame(attack(Game, target))
    /\ op' = Call("attack", target, fault' # "none", 0)
    /\ UNCHANGED << storeVars, scanned, manager >>

\* gameTick's Door forEach
DoorCheck ==
    /\ fault = "none"
    /\ SetGame(endForEach(doorPass(Game, 0), "Door"))
    /\ op' = Call("doorCheck", 0, fault' # "none", 0)
    /\ UNCHANGED << storeVars, scanned, manager >>

DoorNext ==
    \/ \E index \in 0 .. (Len(maps) - 1) : DoorLoad(index)
    \/ DoorJoin
    \/ \E target \in 0 .. (MaxDoorLive - 1) : DoorLose(target)
    \/ DoorCheck

DoorSpec == DoorInit /\ [][DoorNext]_vars

\* C13: doors are closed (and Solid) after a level load; right after the door
\* check every Door's open flag equals (chain length = entitiesNeeded) and the
\* Door is Solid exactly when it is not open, so that no door is open after a
\* check that saw another chain length.
C13_DoorFollowsChain ==
    \A n \in 1 .. Len(componentArrays["Door"].entities) :
        LET id   == componentArrays["Door"].entities[n]
            door == componentArrays["Door"].components[n]
        IN  /\ op.kind = "loadLevel" =>
                  (~op.threw /\ ~door.open /\ has(componentArrays["Solid"], id))
            /\ op.kind = "doorCheck" =>
                  /\ ~op.threw
                  /\ door.open = (Len(playerEntities) = entitiesNeeded)
                  /\ has(componentArrays["Solid"], id) = ~door.open

\* the door check has just run on a chain of entitiesNeeded = 2 members, one
\* member having been lost before: the door is open and not Solid
C13_Witness ==
    /\ op.kind = "doorCheck" /\ fault = "none"
    /\ Len(playerEntities) = entitiesNeeded
    /\ entitiesNeeded = 2
    /\ componentArrays["Door"].entities # << >>
    /\ componentArrays["Door"].components[1].open
    /\ ~has(componentArrays["Solid"], componentArrays["Door"].entities[1])
    /\ componentArrays["Neutral"].entities # << >>

(***************************************************************************)
(* runFrame's timers.  Time is counted in exact units, two of them to the  *)
(* tween frame interval, so that the intervals are whole numbers: the      *)
(* rounding of the double accumulators is left out.  The frames come with  *)
(* no key pressed, on level 0.                                             *)
(***************************************************************************)
animationFramesPerTick == 6
tweenFramesPerTick == 12
tweenFrameInterval == 2
tickInterval == tweenFramesPerTick * tweenFrameInterval
animationFrameInterval == tickInterval \div animationFramesPerTick
tweenEndFrame == tweenFramesPerTick \div 2
texelsPerTile == 32

\* the frame lengths, and the backlog up to which the timers are followed
Deltas == {1, 2, 3}
MaxBacklog == 30

\* the eased tween without the clamp
easedUnclamped(frame) ==
    LET n == texelsPerTile * (3 * frame * frame * tweenEndFrame - 2 * frame * frame * frame)
        d == tweenEndFrame * tweenEndFrame * tweenEndFrame
    IN  (2 * n + d) \div (2 * d)

\* round(texelsPerTile * (3 t^2 - 2 t^3)) for t = clamp(frame / tweenEndFrame, 0, 1):
\* tween in units of 1 / texelsPerTile.  The float operations are exact at
\* t = 0, 1/2 and 1, and for the other frames the value rounded is more than
\* 1/4 away from a half, far more than their error.
eased(frame) ==
    LET c == IF frame < 0 THEN 0 ELSE IF frame > tweenEndFrame THEN tweenEndFrame ELSE frame
        n == texelsPerTile * (3 * c * c * tweenEndFrame - 2 * c * c * c)
        d == tweenEndFrame * tweenEndFrame * tweenEndFrame
    IN  (2 * n + d) \div (2 * d)

\* if (animationFrameTimer >= animationFrameInterval) ...; animationFrameTimer += deltaTime
animationBlock(g, deltaTime) ==
    [g EXCEPT !.animationFrameTimer =
                 IF @ >= animationFrameInterval THEN @ - animationFrameInterval + deltaTime
                 ELSE @ + deltaTime]

\* a tick block that starts the accumulator again from zero
tickBlockReset(g, deltaTime, stale) ==
    LET ticked(g1) ==
            IF g1.fault # "none" THEN g1
            ELSE [g1 EXCEPT !.tickTimer = deltaTime, !.tweenFrame = 0]
    IN  IF g.fault # "none" THEN g
        ELSE IF g.tickTimer >= tickInterval THEN ticked(gameTick(g, stale))
        ELSE [g EXCEPT !.tickTimer = @ + deltaTime]

\* a tick block that adds the frame's time before it looks at the accumulator
tickBlockAddFirst(g, deltaTime, stale) ==
    LET ticked(g1) ==
            IF g1.fault # "none" THEN g1
            ELSE [g1 EXCEPT !.tickTimer = @ - tickInterval + deltaTime, !.tweenFrame = 0]
    IN  IF g.fault # "none" THEN g
        ELSE IF g.tickTimer + deltaTime >= tickInterval THEN ticked(gameTick(g, stale))
        ELSE [g EXCEPT !.tickTimer = @ + deltaTime]

\* if (tickTimer >= tickInterval) { gameTick(); ... }; tickTimer += deltaTime
tickBlock(g, deltaTime, stale) ==
    LET ticked(g1) ==
            IF g1.fault # "none" THEN g1
            ELSE [g1 EXCEPT !.tickTimer = @ - tickInterval + deltaTime, !.tweenFrame = 0]
    IN  IF g.fault # "none" THEN g
        ELSE IF g.tickTimer >= tickInterval THEN ticked(gameTick(g, stale))
        ELSE [g EXCEPT !.tickTimer = @ + deltaTime]

\* a tween block that waits until the timer is past the interval
tweenBlockLate(g, deltaTime) ==
    LET front == Head(g.inputSpriteEntities)
    IN  IF g.fault # "none" THEN g
        ELSE IF g.tweenFrameTimer <= tweenFrameInterval
        THEN [g EXCEPT !.tweenFrameTimer = @ + deltaTime]
        ELSE IF g.inputSpriteEntities # << >>
                /\ (\/ atThrows(g.componentArrays["InputIcon"], front)
                    \/ /\ get(g.componentArrays["InputIcon"], front).completed
                       /\ atThrows(g.componentArrays["Sprite"], front))
        THEN fail([g EXCEPT !.tween = eased(g.tweenFrame), !.tweenFrame = @ + 1], "out_of_range")
        ELSE [g EXCEPT !.tween = eased(g.tweenFrame),
                       !.tweenFrame = @ + 1,
                       !.tweenFrameTimer = @ - tweenFrameInterval + deltaTime]

\* if (tweenFrameTimer >= tweenFrameInterval) { ... }; tweenFrameTimer += deltaTime
tweenBlock(g, deltaTime) ==
    LET front == Head(g.inputSpriteEntities)
    IN  IF g.fault # "none" THEN g
        ELSE IF g.tweenFrameTimer < tweenFrameInterval
        THEN [g EXCEPT !.tweenFrameTimer = @ + deltaTime]
        ELSE IF g.inputSpriteEntities # << >>
                /\ (\/ atThrows(g.componentArrays["InputIcon"], front)
                    \/ /\ get(g.componentArrays["InputIcon"], front).completed
                       /\ atThrows(g.componentArrays["Sprite"], front))
        THEN fail([g EXCEPT !.tween = eased(g.tweenFrame), !.tweenFrame = @ + 1], "out_of_range")
        ELSE [g EXCEPT !.tween = eased(g.tweenFrame),
                       !.tweenFrame = @ + 1,
                       !.tweenFrameTimer = @ - tweenFrameInterval + deltaTime]

FrameInit ==
    /\ StoreIdle
    /\ op = Call("init", 0, FALSE, 0)
    /\ scanned = NoScan
    /\ manager = InputManager
    /\ SetGameInit(loadLevel(GameLogic(1, 1), 0))

\* runFrame(deltaTime) with no key pressed; op tells whether the tick ran (e)
\* and the tweenFrame the tween was computed from (ret; -1 if it was not)
TimedFrame(deltaTime) ==
    /\ fault = "none"
    /\ tickTimer + deltaTime <= MaxBacklog
    /\ tweenFrameTimer + deltaTime <= MaxBacklog
    /\ SetGame(tweenBlock(tickBlock(animationBlock(Game, deltaTime), deltaTime,
                                    << UintMax, UintMax >>),
                          deltaTime))
    /\ op' = Call("runFrame",
                  IF tickTimer >= tickInterval THEN 1 ELSE 0,
                  fault' # "none",
                  IF tweenFrameTimer < tweenFrameInterval THEN -1
                  ELSE IF tickTimer >= tickInterval THEN 0 ELSE tweenFrame)
    /\ UNCHANGED << storeVars, scanned, manager >>

FrameNext == \E deltaTime \in Deltas : TimedFrame(deltaTime)

FrameSpec == FrameInit /\ [][FrameNext]_vars

\* C14: the tween the scheduler stores for tween frame f is a whole number of
\* 1/32 in [0, 1], is 0 for f = 0 and 1 for every f >= 6, and is not less than
\* the one stored for f - 1.
C14_TweenEasing ==
    [][(op'.kind = "runFrame" /\ op'.ret >= 0) =>
          /\ tween' \in 0 .. texelsPerTile
          /\ op'.ret = 0 => tween' = 0
          /\ op'.ret >= 6 => tween' = texelsPerTile
          /\ op'.ret >= 1 => tween' >= tween
          /\ tween' = << 0, 2, 8, 16, 24, 30, 32 >>[(IF op'.ret > 6 THEN 6 ELSE op'.ret) + 1]]_vars

\* the tween has just been computed from a frame beyond the end frame, after
\* a tick had reset the counter
C14_Witness ==
    /\ op.kind = "runFrame" /\ op.ret = 8
    /\ tween = texelsPerTile
    /\ tweenFrame = 9
    /\ tickTimer < tickInterval
    /\ animationFrameTimer > 0

(***************************************************************************)
(* More properties of scan (checked under ScanSpec).                       *)
(***************************************************************************)
\* the cell the latest scan looked at at distance j
Visited(j) ==
    [x |-> scanned.x + j * StepOf(scanned.direction).x,
     y |-> scanned.y + j * StepOf(scanned.direction).y]

\* an occupant of the cell at distance j is Solid
Blocks(j) ==
    \E n \in 1 .. Len(cellAt(Game, Visited(j).x, Visited(j).y).occupants) :
        has(componentArrays["Solid"], cellAt(Game, Visited(j).x, Visited(j).y).occupants[n])

\* C15: from an origin inside the grid, whatever the direction and the limit,
\* scan ends, raises nothing and looks at no cell outside the grid; it ends
\* with false when the next step would leave the grid.
C15_ScanStaysInGrid ==
    scanned.kind = "scan" =>
        /\ InGrid(scanned.x, scanned.y)
        /\ ~scanned.oob
        /\ Len(scanned.calls) < ScanW + ScanH
        /\ \A n \in 1 .. Len(scanned.calls) :
              /\ scanned.calls[n] = [x |-> Visited(n).x, y |-> Visited(n).y, distance |-> n]
              /\ InGrid(Visited(n).x, Visited(n).y)
        /\ LET last == Len(scanned.calls)
           IN  (/\ ~InGrid(Visited(last + 1).x, Visited(last + 1).y)
                /\ scanned.stop # last) => ~scanned.ret

\* a scan without limit has gone over three cells to the edge of the grid
\* and returned false
C15_Witness ==
    /\ scanned.kind = "scan" /\ scanned.limit = 0
    /\ Len(scanned.calls) = 3
    /\ ~InGrid(Visited(4).x, Visited(4).y)
    /\ ~scanned.ret

\* C16: a solid cell ends the scan with false, the callback not invoked on it;
\* else the callback is invoked, and its true ends the scan with true; else a
\* Solid occupant ends the scan with false: the callback has seen that cell
\* and none beyond.
C16_ScanOrder ==
    scanned.kind = "scan" =>
        LET last == Len(scanned.calls)
        IN  /\ \A n \in 1 .. last :
                  /\ InGrid(Visited(n).x, Visited(n).y)
                  /\ ~cellAt(Game, Visited(n).x, Visited(n).y).solid
            /\ \A n \in 1 .. (last - 1) : scanned.stop # n /\ ~Blocks(n)
            /\ scanned.ret = (last >= 1 /\ scanned.stop = last)
            /\ (/\ last >= 1 => (scanned.stop # last /\ ~Blocks(last))
                /\ scanned.limit = 0 \/ last < scanned.limit
                /\ InGrid(Visited(last + 1).x, Visited(last + 1).y)) =>
                  cellAt(Game, Visited(last + 1).x, Visited(last + 1).y).solid

\* a scan has ended with false on a cell with a Solid occupant, which the
\* callback has seen, before a floor cell that it has not
C16_Witness ==
    /\ scanned.kind = "scan" /\ scanned.limit = 0
    /\ Len(scanned.calls) = 2
    /\ scanned.stop = 0
    /\ ~scanned.ret
    /\ Blocks(2)
    /\ InGrid(Visited(3).x, Visited(3).y)
    /\ ~cellAt(Game, Visited(3).x, Visited(3).y).solid

(***************************************************************************)
(* The attack and the de-escalation of an enemy (checked under EnemySpec). *)
(***************************************************************************)
\* the Friendly an enemy's forward scan finds: the first Friendly occupant of
\* the nearest cell that holds one
Seen(id) ==
    LET c == get(componentArrays["MapCoords"], id)
        d == get(componentArrays["Enemy"], id).facingDirection
        k == CHOOSE k \in 1 .. (Len(arena) + Len(arena[1])) : DetectsAt(id, k)
        occupants == cellAt(Game, Ahead(c, d, k).x, Ahead(c, d, k).y).occupants
        n == CHOOSE n \in 1 .. Len(occupants) :
                 /\ has(componentArrays["Friendly"], occupants[n])
                 /\ \A m \in 1 .. (n - 1) : ~has(componentArrays["Friendly"], occupants[m])
    IN  occupants[n]

\* the position (from 0) of an entity in the player chain, its length if absent
ChainIndex(e) ==
    IF \E n \in 1 .. Len(playerEntities) : playerEntities[n] = e
    THEN (CHOOSE n \in 1 .. Len(playerEntities) : playerEntities[n] = e) - 1
    ELSE Len(playerEntities)

\* the enemy of the step about to be taken goes to Attack on a Friendly it sees
Attacks(id) ==
    /\ Detects(id)
    /\ StateOf(id) = Aggressive

C18_AttackCutsChain ==
    [][(/\ op'.kind = "enemyLogic"
        /\ Attacks(op'.e)
        /\ ChainIndex(Seen(op'.e)) \in 1 .. (Len(playerEntities) - 1)) =>
          LET k == ChainIndex(Seen(op'.e))
          IN  /\ fault' = "none"
              /\ playerEntities' = SubSeq(playerEntities, 1, k)
              /\ \A n \in 1 .. Len(playerEntities) :
                    IF n <= k
                    THEN /\ has(componentArrays'["Friendly"], playerEntities[n])
                         /\ ~has(componentArrays'["Neutral"], playerEntities[n])
                    ELSE /\ ~has(componentArrays'["Friendly"], playerEntities[n])
                         /\ has(componentArrays'["Neutral"], playerEntities[n])
                         /\ get(componentArrays'["Neutral"], playerEntities[n]).wasFriendly]_vars

\* an enemy has just gone to Attack and cut the last of three members off
\* the chain
C18_Witness ==
    /\ op.kind = "enemyLogic" /\ fault = "none"
    /\ has(componentArrays["Enemy"], op.e)
    /\ StateOf(op.e) = Attack
    /\ Len(playerEntities) = 2
    /\ Len(componentArrays["Friendly"].entities) = 2
    /\ Len(componentArrays["Neutral"].entities) = 1
    /\ componentArrays["Neutral"].components[1].wasFriendly

\* C19: in a tick in which its forward scan finds no Friendly, an enemy goes
\* from Aggressive to Alert and from any other state to Patrolling; after two
\* such ticks in a row it is Patrolling, whatever it was.
C19_DeEscalation ==
    [][(op'.kind = "enemyLogic" /\ ~Detects(op'.e)) =>
          /\ fault' = "none"
          /\ op'.ret # 1
          /\ get(componentArrays'["Enemy"], op'.e).state =
                (IF StateOf(op'.e) = Aggressive THEN Alert ELSE Patrolling)
          /\ (op.kind = "enemyLogic" /\ op.e = op'.e /\ op.ret # 1) =>
                get(componentArrays'["Enemy"], op'.e).state = Patrolling]_vars

\* an enemy that had attacked the last of two members is Patrolling after a
\* tick in which it found no Friendly
C19_Witness ==
    /\ op.kind = "enemyLogic" /\ fault = "none" /\ op.ret # 1
    /\ has(componentArrays["Enemy"], op.e)
    /\ StateOf(op.e) = Patrolling
    /\ ~Detects(op.e)
    /\ Len(playerEntities) = 1
    /\ Len(componentArrays["Neutral"].entities) = 1

(***************************************************************************)
(* The rescan of a patrolling enemy (checked under EnemySpec).             *)
(***************************************************************************)
\* the n-th direction (from 0) of a rescan: facing, facing + 1, facing + 3
Turned(id, n) ==
    (get(componentArrays["Enemy"], id).facingDirection + << 0, 1, 3 >>[n + 1]) % 4

\* an occupant of floor cell p is Solid
SolidOn(p) ==
    \E n \in 1 .. Len(cellAt(Game, p.x, p.y).occupants) :
        has(componentArrays["Solid"], cellAt(Game, p.x, p.y).occupants[n])

\* the priority of floor cell p
PriorityOf(p) ==
    LET occupants == cellAt(Game, p.x, p.y).occupants
        first     == CHOOSE n \in 1 .. Len(occupants) :
                         /\ has(componentArrays["Solid"], occupants[n])
                         /\ \A m \in 1 .. (n - 1) : ~has(componentArrays["Solid"], occupants[m])
    IN  IF SolidOn(p)
        THEN (IF has(componentArrays["Friendly"], occupants[first]) THEN 2 ELSE 0)
        ELSE IF \E n \in 1 .. Len(occupants) : has(componentArrays["PatrolPoint"], occupants[n])
        THEN 1
        ELSE 0

\* the candidates of a rescan, as pairs of a direction number and a distance:
\* the floor cells a look reaches, those of priority 0 without Solid occupant
Candidates(id) ==
    { a \in (0 .. 2) \X (1 .. (Len(arena) + Len(arena[1]))) :
        LET p == Ahead(CoordsOf(id), Turned(id, a[1]), a[2])
        IN  /\ OnArena(p)
            /\ ~cellAt(Game, p.x, p.y).solid
            /\ \A j \in 1 .. (a[2] - 1) : Passable(Ahead(CoordsOf(id), Turned(id, a[1]), j))
            /\ PriorityOf(p) > 0 \/ ~SolidOn(p) }

\* candidate a is better than candidate b
Beats(id, a, b) ==
    LET pa == PriorityOf(Ahead(CoordsOf(id), Turned(id, a[1]), a[2]))
        pb == PriorityOf(Ahead(CoordsOf(id), Turned(id, b[1]), b[2]))
    IN  \/ pa > pb
        \/ /\ pa = pb
           /\ \/ pa > 0 /\ a[2] < b[2]
              \/ pa = 0 /\ a[2] > b[2]
              \/ a[2] = b[2] /\ a[1] < b[1]

\* C20: a rescanning enemy turns to the direction, among facing, facing + 1
\* and facing + 3 (mod 4), of the best candidate cell (priority 2: first Solid
\* occupant Friendly; 1: patrol point, no Solid occupant; else 0; the higher
\* priority wins, then the nearer for priority > 0 and the farther, without
\* Solid occupant, for priority 0, then the earlier direction), and its target
\* is that cell.
C20_RescanChoice ==
    [][(op'.kind = "enemyLogic" /\ op'.ret = 2) =>
          LET id     == op'.e
              chosen == get(componentArrays'["Enemy"], id)
          IN  /\ ~Detects(id)
              /\ fault' = "none"
              /\ IF Candidates(id) = {}
                 THEN /\ chosen.facingDirection = Turned(id, 0)
                      /\ chosen.target = CoordsOf(id)
                 ELSE \E a \in Candidates(id) :
                         /\ \A b \in Candidates(id) \ {a} : Beats(id, a, b)
                         /\ chosen.facingDirection = Turned(id, a[1])
                         /\ chosen.target = Ahead(CoordsOf(id), Turned(id, a[1]), a[2])]_vars

\* a rescan has just turned an enemy to a patrol point beside it that is
\* nearer than the floor beyond it
C20_Witness ==
    /\ op.kind = "enemyLogic" /\ op.ret = 2 /\ fault = "none"
    /\ has(componentArrays["Enemy"], op.e)
    /\ get(componentArrays["Enemy"], op.e).facingDirection \in {Left, Right}
    /\ get(componentArrays["Enemy"], op.e).target =
          Ahead(CoordsOf(op.e), get(componentArrays["Enemy"], op.e).facingDirection, 1)
    /\ PriorityOf(get(componentArrays["Enemy"], op.e).target) = 1
    /\ Passable(Ahead(CoordsOf(op.e), get(componentArrays["Enemy"], op.e).facingDirection, 2))

\* the cell behind an entity that faces direction
Behind(c, direction) == Ahead(c, direction, -1)

\* C21: a rescanning enemy changes cell only if the direction it chooses is
\* the one it faced and a candidate at a distance above 0 was found; when the
\* rescan turns it, or finds no candidate in any of the three directions, it
\* stays where it is in that tick.
C21_RescanMovesOnlyForward ==
    [][(op'.kind = "enemyLogic" /\ op'.ret = 2) =>
          LET id      == op'.e
              chosen  == get(componentArrays'["Enemy"], id)
              after   == get(componentArrays'["MapCoords"], id)
              turned  == chosen.facingDirection # Turned(id, 0)
          IN  /\ after # CoordsOf(id) =>
                    /\ ~turned
                    /\ Candidates(id) # {}
                    /\ chosen.target # CoordsOf(id)
                    /\ after = Ahead(CoordsOf(id), Turned(id, 0), 1)
              /\ (turned \/ Candidates(id) = {}) => after = CoordsOf(id)]_vars

\* a rescan has left an enemy with its back to the wall on its cell and
\* turned it to a candidate beside it
C21_Witness ==
    /\ op.kind = "enemyLogic" /\ op.ret = 2 /\ fault = "none"
    /\ has(componentArrays["Enemy"], op.e)
    /\ get(componentArrays["Enemy"], op.e).facingDirection \in {Left, Right}
    /\ ~Passable(Behind(CoordsOf(op.e), get(componentArrays["Enemy"], op.e).facingDirection))
    /\ get(componentArrays["Enemy"], op.e).target # CoordsOf(op.e)
    /\ get(componentArrays["Enemy"], op.e).state = Patrolling

(***************************************************************************)
(* The player's move on its own: chain members, an enemy and a door are    *)
(* put on the arena, and then keys are pressed and ticks begin, consume    *)
(* the input event and check the doors.  The first map after the arena is  *)
(* maps[2].                                                                *)
(***************************************************************************)
MaxDoors == 1
MaxPlaced == 4
MaxPressed == 1

\* what a tick's move met, as a number
MetCode(g) ==
    IF g.inputQueue = << >> \/ g.playerEntities = << >> THEN 0
    ELSE LET kind == leaderMeets(g, Head(g.inputQueue)).kind
         IN  CASE kind = "solid" -> 1
               [] kind = "blocked" -> 2
               [] kind = "attack" -> 3
               [] kind = "capture" -> 4
               [] kind = "free" -> 5

MoveInit ==
    /\ StoreIdle
    /\ op = Call("init", 0, FALSE, 0)
    /\ scanned = NoScan
    /\ manager = InputManager
    /\ SetGameInit([GameLogic(Len(arena[1]), Len(arena)) EXCEPT
                       !.entitiesNeeded = 2,
                       !.cells = [row \in 1 .. Len(arena) |->
                                     [col \in 1 .. Len(arena[row]) |->
                                         [solid |-> arena[row][col] = "X", occupants |-> << >>]]]])

\* a door, as loadLevel makes it
SpawnDoor(x, y) ==
    /\ Spawning(x, y)
    /\ playerEntities # << >>
    /\ Len(componentArrays["Door"].entities) < MaxDoors
    /\ SetGame(spawnMarkers(Game, "D", << << x, y >> >>))
    /\ op' = Call("spawn", 0, FALSE, 0)
    /\ UNCHANGED << storeVars, scanned, manager >>

\* runFrame: a key has gone down
Press(direction) ==
    /\ fault = "none"
    /\ op.kind \notin {"tick", "move"}
    /\ playerEntities # << >>
    /\ Len(inputQueue) < MaxPressed
    /\ SetGame(pressKey(Game, direction))
    /\ op' = Call("press", direction, fault' # "none", 0)
    /\ UNCHANGED << storeVars, scanned, manager >>

\* gameTick begins: the Transient entities and the completed input icon go
TickBegin ==
    /\ fault = "none"
    /\ op.kind \notin {"tick", "move"}
    /\ playerEntities # << >>
    /\ SetGame(popIcon(destroyTransients(Game)))
    /\ op' = Call("tick", 0, fault' # "none", 0)
    /\ UNCHANGED << storeVars, scanned, manager >>

\* gameTick goes on: the front input event is consumed
Consume(stale) ==
    /\ fault = "none"
    /\ op.kind = "tick"
    /\ SetGame(consumeInput(Game, stale))
    /\ op' = Call("move", IF inputQueue = << >> THEN 4 ELSE Head(inputQueue), fault' # "none",
                  MetCode(Game))
    /\ UNCHANGED << storeVars, scanned, manager >>

\* entities are put on the arena in reading order, up to MaxPlaced of them
Placing(x, y) ==
    /\ Cardinality(live) < MaxPlaced
    /\ \A x2 \in ArenaX, y2 \in ArenaY :
          cellAt(Game, x2, y2).occupants # << >> => y2 * Len(arena[1]) + x2 < y * Len(arena[1]) + x

\* what Consume can read through a dangling "coords"
MoveStales ==
    IF readsMovedStorage(Game) THEN StaleReads(Game) ELSE {<< UintMax, UintMax >>}

MoveNext ==
    \/ \E x \in ArenaX, y \in ArenaY : Placing(x, y) /\ SpawnMember(x, y)
    \/ \E x \in ArenaX, y \in ArenaY : Placing(x, y) /\ SpawnEnemy(x, y)
    \/ \E x \in ArenaX, y \in ArenaY : Placing(x, y) /\ SpawnDoor(x, y)
    \/ \E direction \in Directions : Press(direction)
    \/ TickBegin
    \/ \E stale \in MoveStales : Consume(stale)
    \/ op.kind = "move" /\ DoorCheck

MoveSpec == MoveInit /\ [][MoveNext]_vars

(***************************************************************************)
(* Properties of the player's move (checked under MoveSpec).  They speak   *)
(* of the step that consumes an input event while the chain has a leader,  *)
(* in terms of the state before it.                                        *)
(***************************************************************************)
Moving == inputQueue # << >> /\ playerEntities # << >>

\* the cell the leader is on
From == CoordsOf(Head(playerEntities))

\* the cell one step from the leader in the direction of the front input
\* event, the leader's own cell when that step leaves the grid
Dest ==
    LET p == Ahead(From, Head(inputQueue), 1)
    IN  IF p.x \in 0 .. (width(Game) - 1) /\ p.y \in 0 .. (height(Game) - 1) THEN p ELSE From

\* the occupants of Dest that are Enemy, Neutral or Solid, as positions on
\* its occupant list
Deciding ==
    { n \in 1 .. Len(cellAt(Game, Dest.x, Dest.y).occupants) :
        \E T \in {"Enemy", "Neutral", "Solid"} :
            has(componentArrays[T], cellAt(Game, Dest.x, Dest.y).occupants[n]) }

\* the first of them
Obstacle ==
    cellAt(Game, Dest.x, Dest.y).occupants[CHOOSE n \in Deciding : \A m \in Deciding : n <= m]

\* what the move meets
Met ==
    IF cellAt(Game, Dest.x, Dest.y).solid THEN "solid"
    ELSE IF Deciding = {} THEN "free"
    ELSE IF has(componentArrays["Enemy"], Obstacle) THEN "attack"
    ELSE IF has(componentArrays["Neutral"], Obstacle) THEN "capture"
    ELSE "blocked"

\* cell p holds a Door whose flag is open
OpenDoorOn(p) ==
    \E n \in 1 .. Len(cellAt(Game, p.x, p.y).occupants) :
        /\ has(componentArrays["Door"], cellAt(Game, p.x, p.y).occupants[n])
        /\ get(componentArrays["Door"], cellAt(Game, p.x, p.y).occupants[n]).open

\* C22 (as stated): after a leader move that is neither blocked nor an
\* attack, the level advances, when there is a next one, exactly when the
\* cell the leader was on before the move holds an open Door.
C22_AdvanceOnDoorLeft ==
    [][(op'.kind = "move" /\ Moving /\ Met \in {"free", "capture"}) =>
          (currentLevel' # currentLevel) = (currentLevel + 1 < Len(maps) /\ OpenDoorOn(From))]_vars

\* C22 (amended): after a leader move that is neither blocked nor an attack,
\* the level advances by one, when there is a next one, exactly when the cell
\* the leader has moved to holds an open Door.
C22_AdvanceOnDoorEntered ==
    [][(op'.kind = "move" /\ Moving /\ Met \in {"free", "capture"}) =>
          /\ fault' = "none"
          /\ currentLevel' = IF currentLevel + 1 < Len(maps) /\ OpenDoorOn(Dest)
                             THEN currentLevel + 1
                             ELSE currentLevel]_vars

\* a move has just loaded the second level: nothing of the level left is there
C22_Witness ==
    /\ op.kind = "move" /\ op.ret = 5 /\ fault = "none"
    /\ currentLevel = 1
    /\ componentArrays["InputIcon"].entities = << >>
    /\ Len(playerEntities) = 1
    /\ Len(componentArrays["Enemy"].entities) = 1

\* the chain as a move that is not blocked and no attack leaves it
Chain == IF Met = "capture" THEN Append(playerEntities, Obstacle) ELSE playerEntities

\* C23: after a leader move that is neither blocked nor an attack (and does
\* not end the level), the follower at each chain index i >= 1 is on the cell
\* the member at index i - 1 was on before the move, the leader is on the
\* destination cell, and the chain is in the order it was in.
C23_ChainFollows ==
    [][(/\ op'.kind = "move" /\ Moving /\ Met \in {"free", "capture"}
        /\ currentLevel' = currentLevel) =>
          /\ fault' = "none"
          /\ playerEntities' = Chain
          /\ get(componentArrays'["MapCoords"], Chain[1]) = Dest
          /\ \A n \in 2 .. Len(Chain) :
                get(componentArrays'["MapCoords"], Chain[n]) = CoordsOf(Chain[n - 1])]_vars

\* a chain of three, each member on a cell of its own, has just advanced
C23_Witness ==
    /\ op.kind = "move" /\ op.ret = 5 /\ fault = "none"
    /\ Len(playerEntities) = 3
    /\ \A n, m \in 1 .. 3 : n # m => CoordsOf(playerEntities[n]) # CoordsOf(playerEntities[m])
    /\ CoordsOf(playerEntities[1]) = Ahead(CoordsOf(playerEntities[2]), op.e, 1)

\* C26: when the first Enemy, Neutral or Solid occupant of the leader's
\* destination is Neutral, it loses Neutral, gains Friendly and becomes the
\* last member of the chain, which grows by one and advances in the same
\* tick: the captured entity ends on the cell of the former tail, the leader
\* on the destination.
C26_Capture ==
    [][(op'.kind = "move" /\ Moving /\ Met = "capture" /\ currentLevel' = currentLevel) =>
          /\ fault' = "none"
          /\ ~has(componentArrays'["Neutral"], Obstacle)
          /\ has(componentArrays'["Friendly"], Obstacle)
          /\ Len(playerEntities') = Len(playerEntities) + 1
          /\ playerEntities' = Append(playerEntities, Obstacle)
          /\ get(componentArrays'["MapCoords"], Obstacle)
                = CoordsOf(playerEntities[Len(playerEntities)])
          /\ get(componentArrays'["MapCoords"], Head(playerEntities)) = Dest]_vars

\* a leader with one follower has just captured a third member, which
\* stands behind the follower
C26_Witness ==
    /\ op.kind = "move" /\ op.ret = 4 /\ fault = "none"
    /\ Len(playerEntities) = 3
    /\ componentArrays["Neutral"].entities = << >>
    /\ has(componentArrays["Friendly"], playerEntities[3])
    /\ ~has(componentArrays["Enemy"], playerEntities[3])
    /\ \A n, m \in 1 .. 3 : n # m => CoordsOf(playerEntities[n]) # CoordsOf(playerEntities[m])

\* the components that place and tag the entities
Tags == {"MapCoords", "Enemy", "Neutral", "Friendly", "Solid", "Door", "Transient", "PatrolPoint"}

\* C27: when the destination of a consumed input event is solid, or its
\* first Enemy, Neutral or Solid occupant is Solid and neither Enemy nor
\* Neutral, the move is discarded: no entity changes position, no tag
\* changes, the chain and the level stay, and the event leaves the queue.
C27_BlockedMoveDiscarded ==
    [][(op'.kind = "move" /\ Moving /\ Met \in {"solid", "blocked"}) =>
          /\ fault' = "none"
          /\ cells' = cells
          /\ \A T \in Tags : componentArrays'[T] = componentArrays[T]
          /\ playerEntities' = playerEntities
          /\ currentLevel' = currentLevel
          /\ inputQueue' = Tail(inputQueue)]_vars

\* the leader has just been kept off the cell of a closed door
C27_Witness ==
    /\ op.kind = "move" /\ op.ret = 2 /\ fault = "none"
    /\ inputQueue = << >>
    /\ LET p == Ahead(CoordsOf(Head(playerEntities)), op.e, 1)
       IN  /\ OnArena(p)
           /\ \E n \in 1 .. Len(cellAt(Game, p.x, p.y).occupants) :
                 /\ has(componentArrays["Door"], cellAt(Game, p.x, p.y).occupants[n])
                 /\ ~get(componentArrays["Door"], cellAt(Game, p.x, p.y).occupants[n]).open
                 /\ has(componentArrays["Solid"], cellAt(Game, p.x, p.y).occupants[n])

\* C24: when the first Enemy, Neutral or Solid occupant of the leader's
\* destination is an Enemy, it loses Enemy and gains Neutral with wasFriendly
\* false, one Transient entity is created on the destination cell, and the
\* chain and the position of each of its members are as before.
C24_AttackBonks ==
    [][(op'.kind = "move" /\ Moving /\ Met = "attack") =>
          /\ fault' = "none"
          /\ ~has(componentArrays'["Enemy"], Obstacle)
          /\ has(componentArrays'["Neutral"], Obstacle)
          /\ ~get(componentArrays'["Neutral"], Obstacle).wasFriendly
          /\ Len(componentArrays'["Transient"].entities)
                = Len(componentArrays["Transient"].entities) + 1
          /\ \A n \in 1 .. Len(componentArrays'["Transient"].entities) :
                LET bonker == componentArrays'["Transient"].entities[n]
                IN  has(componentArrays["Transient"], bonker)
                    \/ /\ has(componentArrays'["MapCoords"], bonker)
                       /\ get(componentArrays'["MapCoords"], bonker) = Dest
                       /\ \E k \in 1 .. Len(cells'[Dest.y + 1][Dest.x + 1].occupants) :
                             cells'[Dest.y + 1][Dest.x + 1].occupants[k] = bonker
          /\ playerEntities' = playerEntities
          /\ \A n \in 1 .. Len(playerEntities) :
                get(componentArrays'["MapCoords"], playerEntities[n]) = CoordsOf(playerEntities[n])]_vars

\* C25: every Transient entity there is when a tick begins is destroyed as
\* the tick's first step: it is in no store and on no cell and its handle is
\* on the free list, and the loop ends.
C25_TransientsDestroyed ==
    [][op'.kind = "tick" =>
          /\ fault' = "none"
          /\ componentArrays'["Transient"].entities = << >>
          /\ \A n \in 1 .. Len(componentArrays["Transient"].entities) :
                LET bonker == componentArrays["Transient"].entities[n]
                IN  /\ \A T \in Components : ~has(componentArrays'[T], bonker)
                    /\ \A row \in 1 .. Len(cells') :
                          \A col \in 1 .. Len(cells'[row]) :
                              \A k \in 1 .. Len(cells'[row][col].occupants) :
                                  cells'[row][col].occupants[k] # bonker
                    /\ \E k \in 1 .. Len(freeEntities') : freeEntities'[k] = bonker]_vars

(***************************************************************************)
(* runFrame with keys and with frames of any length: the input is polled,  *)
(* then the timers run.  The game starts on level 0; the frames are        *)
(* followed while the timers stay within MaxLag.                           *)
(***************************************************************************)
MaxQueued == 3
MaxKeys == 2
MaxLag == 96

\* the frame lengths: half a tick interval, a tick interval, two and a half
FrameTimes == {tickInterval \div 2, tickInterval, 5 * (tickInterval \div 2)}

\* the keys that went down, as a number
KeyMask(pressed) ==
    (IF Up \in pressed THEN 1 ELSE 0) + (IF Left \in pressed THEN 2 ELSE 0)
        + (IF Down \in pressed THEN 4 ELSE 0) + (IF Right \in pressed THEN 8 ELSE 0)

\* runFrame
runFrame(g, pressed, deltaTime, stale) ==
    tweenBlock(tickBlock(animationBlock(pollInput(g, << Up, Left, Down, Right >>, pressed),
                                        deltaTime),
                         deltaTime, stale),
               deltaTime)

QueueInit ==
    /\ StoreIdle
    /\ op = Call("init", 0, FALSE, 0)
    /\ scanned = NoScan
    /\ manager = InputManager
    /\ SetGameInit(loadLevel(GameLogic(1, 1), 0))

\* runFrame(deltaTime) with the keys pressed since the last frame; op tells
\* the keys (e) and the frame's length (ret)
QueueFrame(pressed, deltaTime, stale) ==
    /\ fault = "none"
    /\ Cardinality(pressed) <= MaxKeys
    /\ Len(inputQueue) + Cardinality(pressed) <= MaxQueued
    /\ tickTimer + deltaTime <= MaxLag
    /\ tweenFrameTimer + deltaTime <= MaxLag
    /\ animationFrameTimer + deltaTime <= MaxLag
    /\ SetGame(runFrame(Game, pressed, deltaTime, stale))
    /\ op' = Call("frame", KeyMask(pressed), fault' # "none", deltaTime)
    /\ UNCHANGED << storeVars, scanned, manager >>

QueueNext ==
    \E pressed \in SUBSET Directions, deltaTime \in FrameTimes :
        \E stale \in Stales(pressed, tickTimer >= tickInterval) :
            QueueFrame(pressed, deltaTime, stale)

QueueSpec == QueueInit /\ [][QueueNext]_vars

\* the keys of a frame in the order runFrame polls them
KeysOf(mask) ==
    SelectSeq(<< Up, Left, Down, Right >>,
              LAMBDA direction : (mask \div (2 ^ direction)) % 2 = 1)

\* C28: a tick takes at most one event from the input queue, the events are
\* consumed in the order in which they were put on it, none twice, and an
\* event leaves the queue unconsumed only when a level load clears the queue.
C28_QueueInOrder ==
    [][op'.kind = "frame" =>
          LET polled == inputQueue \o KeysOf(op'.e)
              ticked == tickTimer >= tickInterval
          IN  /\ fault' = "none"
              /\ inputQueue' =
                    IF ~ticked \/ polled = << >> THEN polled
                    ELSE IF currentLevel' # currentLevel THEN << >>
                    ELSE Tail(polled)
              /\ currentLevel' # currentLevel => (ticked /\ polled # << >> /\ Head(polled) = Up)
              /\ Len(inputSpriteEntities') \in {Len(inputQueue'), Len(inputQueue') + 1}]_vars

\* a tick has consumed the first of three events; the two that were put on
\* the queue after it wait in their order
C28_Witness ==
    /\ op.kind = "frame" /\ fault = "none"
    /\ Len(inputQueue) = 2
    /\ Len(inputSpriteEntities) = 3
    /\ get(componentArrays["InputIcon"], Head(inputSpriteEntities)).completed
    /\ inputQueue[1] # inputQueue[2]
    /\ tweenFrame <= 1

\* C29: one runFrame call runs at most one tick, whatever deltaTime is and
\* however much time has accumulated; the tick takes one tick interval off
\* the accumulator, which is never reset, so that a backlog of several
\* intervals is worked off one tick per call.
C29_OneTickPerFrame ==
    [][op'.kind = "frame" =>
          LET polled == inputQueue \o KeysOf(op'.e)
              ticked == tickTimer >= tickInterval
          IN  /\ tickTimer' = (IF ticked THEN tickTimer - tickInterval ELSE tickTimer) + op'.ret
              /\ Len(inputQueue') >= Len(polled) - 1 \/ currentLevel' # currentLevel
              /\ (ticked /\ polled # << >> /\ currentLevel' = currentLevel)
                    => Len(inputQueue') = Len(polled) - 1
              /\ tickTimer >= 2 * tickInterval => tickTimer' >= tickInterval
              /\ tweenFrame' <= (IF ticked THEN 1 ELSE tweenFrame + 1)]_vars

\* a frame has run one tick, which has consumed one of two events, and more
\* than a tick interval is still on the accumulator
C29_Witness ==
    /\ op.kind = "frame" /\ fault = "none"
    /\ tweenFrame <= 1
    /\ tickTimer >= 2 * tickInterval
    /\ Len(inputQueue) = 1
    /\ Len(inputSpriteEntities) = 2
    /\ get(componentArrays["InputIcon"], Head(inputSpriteEntities)).completed

(***************************************************************************)
(* The ticks counted: runFrame with no key pressed and frames of at most a *)
(* tick interval; op carries the number of ticks run so far (e) and the    *)
(* sum of the frame lengths so far (ret).                                  *)
(***************************************************************************)
MaxClock == 120

\* the frame lengths, none above the tick interval
ClockTimes == {1, 7, tickInterval \div 2, tickInterval}

ClockInit ==
    /\ StoreIdle
    /\ op = Call("init", 0, FALSE, 0)
    /\ scanned = NoScan
    /\ manager = InputManager
    /\ SetGameInit(loadLevel(GameLogic(1, 1), 0))

\* runFrame(deltaTime); the tick has run if the accumulator is not the old
\* one plus deltaTime
ClockFrame(deltaTime) ==
    /\ fault = "none"
    /\ op.ret + deltaTime <= MaxClock
    /\ tweenFrameTimer + deltaTime <= MaxLag
    /\ animationFrameTimer + deltaTime <= MaxLag
    /\ SetGame(runFrame(Game, {}, deltaTime, << UintMax, UintMax >>))
    /\ op' = Call("clock", op.e + (IF tickTimer' = tickTimer + deltaTime THEN 0 ELSE 1),
                  fault' # "none", op.ret + deltaTime)
    /\ UNCHANGED << storeVars, scanned, manager >>

ClockNext == \E deltaTime \in ClockTimes : ClockFrame(deltaTime)

ClockSpec == ClockInit /\ [][ClockNext]_vars

\* C30: with frames of at most a tick interval, the ticks run up to and
\* including the n-th runFrame call are floor(S / tickInterval) in number,
\* S being the sum of the lengths of the calls before the n-th.
C30_TicksKeepPace ==
    [][op'.kind = "clock" => op'.e = op.ret \div tickInterval]_vars

\* three ticks have run in frames whose lengths do not add up to a whole
\* number of tick intervals
C30_Witness ==
    /\ op.kind = "clock" /\ fault = "none"
    /\ op.e = 3
    /\ op.ret % tickInterval \notin {0, tickInterval \div 2}
    /\ tickTimer > tickInterval

(***************************************************************************)
(* Whole ticks on the arena.  The level is made as loadLevel makes one     *)
(* (chain, enemies, patrol points, doors, counter text), from one of a     *)
(* few layouts, the chain with the followers that captures have given it;  *)
(* then every step is a frame in which at most one key has gone down and   *)
(* a tick is due, so that gameTick runs from its first statement to its    *)
(* last (in two steps: up to the Enemy forEach, and the Enemy forEach),    *)
(* until the level ends.  The first map after the arena is maps[2].        *)
(***************************************************************************)
\* frames with a tick that are followed
MaxTicks == 10

\* the layouts: the cells of the chain (leader first), of the enemies, of
\* the patrol points and of the doors
PlayLayouts ==
    { [P |-> << << 2, 2 >>, << 1, 2 >> >>, E |-> << << 1, 1 >> >>, T |-> << >>,
       D |-> << << 3, 2 >> >>],
      [P |-> << << 1, 1 >> >>, E |-> << << 3, 1 >> >>, T |-> << << 3, 2 >> >>,
       D |-> << << 2, 2 >> >>],
      [P |-> << << 3, 1 >>, << 3, 2 >>, << 2, 2 >> >>, E |-> << << 1, 1 >> >>, T |-> << << 2, 1 >> >>,
       D |-> << >>] }

PlayInit ==
    /\ StoreIdle
    /\ op = Call("loadLevel", 0, FALSE, 0)
    /\ scanned = NoScan
    /\ manager = InputManager
    /\ \E layout \in PlayLayouts, policy \in {"double", "half"} :
          LET g0 == [GameLogic(Len(arena[1]), Len(arena)) EXCEPT
                        !.growth = policy,
                        !.entitiesNeeded = 2,
                        !.cells = [row \in 1 .. Len(arena) |->
                                      [col \in 1 .. Len(arena[row]) |->
                                          [solid |-> arena[row][col] = "X", occupants |-> << >>]]]]
              counter(r) == addComponent([r.g EXCEPT !.gubgubCounterText = r.index], "Text", r.index, 0)
          IN  SetGameInit(counter(createEntity(
                  spawnMarkers(spawnMarkers(spawnMarkers(initPlayer(g0, layout.P), "E", layout.E),
                                            "T", layout.T),
                               "D", layout.D))))

\* runFrame when the tick is due: the keys are polled and gameTick runs up
\* to the Enemy forEach; the call records the number of ticks so far and
\* what the leader's move met
PlayFrame(pressed, stale) ==
    /\ fault = "none"
    /\ op.kind # "gameTick"
    /\ currentLevel = 0
    /\ op.e < MaxTicks
    /\ SetGame(tickToEnemies(pollInput(Game, << Up, Left, Down, Right >>, pressed), stale))
    /\ op' = Call("gameTick", op.e + 1, fault' # "none",
                  MetCode(pollInput(Game, << Up, Left, Down, Right >>, pressed)))
    /\ UNCHANGED << storeVars, scanned, manager >>

\* gameTick goes on: the Enemy forEach, which ends the tick
PlayEnemies ==
    /\ fault = "none"
    /\ op.kind = "gameTick"
    /\ SetGame(enemyPass(Game, 0))
    /\ op' = Call("enemies", op.e, fault' # "none", op.ret)
    /\ UNCHANGED << storeVars, scanned, manager >>

PlayNext ==
    \/ \E pressed \in {{}} \cup {{direction} : direction \in Directions} :
          \E stale \in Stales(pressed, TRUE) : PlayFrame(pressed, stale)
    \/ PlayEnemies

PlaySpec == PlayInit /\ [][PlayNext]_vars

(***************************************************************************)
(* Properties of whole ticks (checked under PlaySpec).                     *)
(***************************************************************************)
\* the entities that have a component of type T
With(T) == Range(componentArrays[T].entities)

\* the cooldown of a Neutral entity
Cooldown(id) == get(componentArrays["Neutral"], id).cooldown

\* C31: within a level, a Neutral pass that runs to its end leaves every
\* Neutral entity that the tick's move has not captured either with its
\* cooldown one less (it was positive) and still Neutral and no Enemy, or
\* (it was 0) without Neutral and with an Enemy component in state
\* Patrolling.  A Neutral component starts at 3: an entity the tick's move
\* has stunned comes out of that tick's pass with 2, an entity an enemy
\* stuns comes out of the Enemy forEach with 3, and the Enemy forEach
\* changes no other cooldown.  So the cooldown falls in three passes and
\* the fourth pass turns the entity back: it never stays Neutral.
C31_NeutralCooldown ==
    [][/\ (op'.kind = "gameTick" /\ fault' = "none" /\ currentLevel' = currentLevel) =>
            /\ \A id \in With("Neutral") \ Range(playerEntities') :
                  IF Cooldown(id) > 0
                  THEN /\ has(componentArrays'["Neutral"], id)
                       /\ get(componentArrays'["Neutral"], id).cooldown = Cooldown(id) - 1
                       /\ ~has(componentArrays'["Enemy"], id)
                  ELSE /\ ~has(componentArrays'["Neutral"], id)
                       /\ has(componentArrays'["Enemy"], id)
                       /\ get(componentArrays'["Enemy"], id).state = Patrolling
            /\ \A id \in Range(componentArrays'["Neutral"].entities) \ With("Neutral") :
                  get(componentArrays'["Neutral"], id).cooldown = 2
       /\ (op'.kind = "enemies" /\ fault' = "none") =>
            \A id \in Range(componentArrays'["Neutral"].entities) :
                get(componentArrays'["Neutral"], id).cooldown =
                    IF id \in With("Neutral") THEN Cooldown(id) ELSE 3]_vars

\* a Neutral pass has just turned a stunned follower back into an enemy, by
\* the side of the level's own enemy
C31_Witness ==
    /\ op.kind = "gameTick" /\ fault = "none" /\ currentLevel = 0
    /\ Len(componentArrays["Enemy"].entities) = 2
    /\ componentArrays["Enemy"].components[2] = Default("Enemy")
    /\ With("Neutral") = {}

(***************************************************************************)
(* The tween after a tick (checked under ClockSpec).                       *)
(***************************************************************************)
\* C32: with time in whole units, a runFrame call that runs the tick also
\* recomputes the tween, from the counter the tick has just set to 0: when
\* the call returns the tween is 0 and the counter is 1, whatever the tween
\* was before.
C32_TweenRestarts ==
    [][(op'.kind = "clock" /\ tickTimer >= tickInterval) =>
          /\ fault' = "none"
          /\ tweenFrameTimer >= tweenFrameInterval
          /\ tween' = 0
          /\ tweenFrame' = 1]_vars

\* the tween has been recomputed from the counter that the second or a
\* later tick had set to 0, in frames whose lengths add up to an odd number
C32_Witness ==
    /\ op.kind = "clock" /\ fault = "none"
    /\ op.e >= 2
    /\ op.ret % 2 = 1
    /\ tickTimer < tickInterval
    /\ tween = 0
    /\ tweenFrame = 1

Settled == op.kind \in {"loadLevel", "enemies"} /\ fault = "none"

\* no handle is twice on the chain
NoDuplicate(chain) == \A j, k \in 1 .. Len(chain) : chain[j] = chain[k] => j = k

\* the chain and the Friendly tags agree
ChainIsFriendly ==
    /\ playerEntities # << >>
    /\ NoDuplicate(playerEntities)
    /\ With("Friendly") = Range(playerEntities)

\* C34: after level load and after every tick the chain holds no handle
\* twice and the Friendly entities are exactly its members; within a level
\* its first member is the same handle after every tick.
C34_ChainAndFriendly ==
    /\ Settled => ChainIsFriendly
    /\ [][/\ Settled' => ChainIsFriendly'
          /\ (Settled' /\ currentLevel' = currentLevel)
                => Head(playerEntities') = Head(playerEntities)]_vars

\* a tick is over in which the chain of one has a captured entity behind the
\* leader and no enemy is left
C34_Witness ==
    /\ op.kind = "enemies" /\ fault = "none" /\ currentLevel = 0
    /\ Len(playerEntities) = 2
    /\ With("Enemy") = {} /\ With("Neutral") = {}
    /\ op.ret = 4

\* the entities that have more than one of Enemy, Friendly and Neutral
TwoFaced ==
    (With("Enemy") \cap With("Friendly")) \cup (With("Enemy") \cap With("Neutral"))
        \cup (With("Friendly") \cap With("Neutral"))

\* C35: after level load and after every tick no entity has more than one
\* of the components Enemy, Friendly and Neutral.
C35_OneFaction ==
    /\ Settled => TwoFaced = {}
    /\ [][Settled' => TwoFaced' = {}]_vars

\* a tick is over in which an enemy has stunned a follower, while an entity
\* that a Neutral pass has turned back is an enemy again
C35_Witness ==
    /\ op.kind = "enemies" /\ fault = "none" /\ currentLevel = 0
    /\ \E id \in With("Neutral") :
          /\ get(componentArrays["Neutral"], id).wasFriendly
          /\ Cooldown(id) = 3
    /\ Len(componentArrays["Enemy"].entities) = 2

\* the characters: the entities with Enemy, Friendly or Neutral
Characters == With("Enemy") \cup With("Friendly") \cup With("Neutral")

\* how many characters the occupant list of a cell names
CharactersOn(cell) == Cardinality({k \in 1 .. Len(cell.occupants) : cell.occupants[k] \in Characters})

\* every cell holds at most one character, and none on solid terrain
OneToACell ==
    \A row \in 1 .. Len(cells) :
        \A col \in 1 .. Len(cells[row]) :
            CharactersOn(cells[row][col]) <= (IF cells[row][col].solid THEN 0 ELSE 1)

\* C36: after level load and after every tick, no solid cell holds an
\* Enemy, Friendly or Neutral entity and no cell's occupant list names more
\* than one of them.
C36_OneCharacterPerCell ==
    /\ Settled => OneToACell
    /\ [][Settled' => OneToACell']_vars

\* a tick is over in which an enemy has walked while the chain has moved and
\* a stunned follower lies on its cell: four characters on four cells
C36_Witness ==
    /\ op.kind = "enemies" /\ fault = "none" /\ currentLevel = 0
    /\ op.ret = 5
    /\ Cardinality(Characters) = 4
    /\ With("Neutral") # {}
    /\ \E id \in With("Enemy") :
          get(componentArrays["MapCoords"], id) \notin {[x |-> 1, y |-> 1], [x |-> 3, y |-> 1]}

(***************************************************************************)
(* The facing of an enemy (checked under EnemySpec).                       *)
(***************************************************************************)
\* a neighbour an enemy can neither enter nor turn to: off the grid, solid
\* terrain, or a cell whose first Solid occupant is not Friendly
Shut(p) ==
    \/ ~OnArena(p)
    \/ cellAt(Game, p.x, p.y).solid
    \/ SolidOn(p) /\ PriorityOf(p) = 0

\* the cells ahead of, left of and right of an enemy are all shut
BoxedIn(id) == \A n \in 0 .. 2 : Shut(Ahead(CoordsOf(id), Turned(id, n), 1))

InUse == UNION {With(T) : T \in Components}

\* the free list names no handle twice and none in use, and every handle in
\* use or on the free list has been given out by the counter
FreeListSound ==
    /\ NoDuplicate(freeEntities)
    /\ Range(freeEntities) \cap (InUse \cup live) = {}
    /\ \A e \in Range(freeEntities) \cup InUse \cup live : e < entityIndexCounter

\* C38: in every state of the game the free list holds no handle twice and
\* no handle of an entity in use, and the counter is above every handle in
\* use, so that createEntity returns no handle in use; a frame that loads a
\* level leaves the free list empty and the counter at the number of the
\* new level's entities.
C38_FreeListSound ==
    /\ FreeListSound
    /\ [][/\ FreeListSound'
          /\ currentLevel' # currentLevel =>
                /\ freeEntities' = << >>
                /\ InUse' = 0 .. (entityIndexCounter' - 1)]_vars

\* the bonk of an attack has a handle below the handle of the icon of the
\* input event that led to it: one that createEntity took from the free list
C38_Witness ==
    /\ op.kind = "runFrame" /\ fault = "none"
    /\ \E b \in With("Transient"), icon \in With("InputIcon") : b < icon

(***************************************************************************)
(* The input icons and the input queue (checked under QueueSpec).          *)
(***************************************************************************)
\* the icon is marked completed in the game state g
Completed(g, icon) ==
    /\ has(g.componentArrays["InputIcon"], icon)
    /\ get(g.componentArrays["InputIcon"], icon).completed

\* the icon list of g against its queue
IconsMatchQueue(g) ==
    /\ Len(g.inputSpriteEntities) =
          Len(g.inputQueue)
              + (IF g.inputSpriteEntities # << >> /\ Completed(g, Head(g.inputSpriteEntities))
                 THEN 1 ELSE 0)
    /\ \A k \in 2 .. Len(g.inputSpriteEntities) : ~Completed(g, g.inputSpriteEntities[k])
    /\ NoDuplicate(g.inputSpriteEntities)
    /\ Range(g.inputSpriteEntities) = Range(g.componentArrays["InputIcon"].entities)

\* the state of a tick at its consume step, for the keys of the frame
AtConsume(g, pressed) ==
    popIcon(destroyTransients(pollInput(g, << Up, Left, Down, Right >>, pressed)))

\* C39: after every runFrame call, whether its tick ran or not, there are as
\* many input icons as queued events, plus one when the front icon is marked
\* completed, and no icon but the front one is completed; and whatever keys
\* the next frame brings, a queue that is not empty at the consume step of
\* its tick comes with an icon list whose front icon is there and not yet
\* completed.
C39_IconsMatchQueue ==
    fault = "none" =>
        /\ IconsMatchQueue(Game)
        /\ \A pressed \in SUBSET Directions :
              Cardinality(pressed) <= MaxKeys =>
                  LET g == AtConsume(Game, pressed)
                  IN  /\ g.fault = "none"
                      /\ g.inputQueue # << >> =>
                            /\ g.inputSpriteEntities # << >>
                            /\ has(g.componentArrays["InputIcon"], Head(g.inputSpriteEntities))
                            /\ ~Completed(g, Head(g.inputSpriteEntities))

\* a tick has run with three events waiting: the front icon is completed,
\* two events and their icons wait behind it
C39_Witness ==
    /\ op.kind = "frame" /\ fault = "none"
    /\ op.ret >= tickInterval
    /\ Len(inputQueue) = 2
    /\ Len(inputSpriteEntities) = 3
    /\ Completed(Game, inputSpriteEntities[1])
    /\ ~Completed(Game, inputSpriteEntities[2])

(***************************************************************************)
(* The InputManager: mappings are created and mapped to keys, mouse        *)
(* buttons and cursor axes, the window's events update the inputs.         *)
(* inputs[k] of the code is inputs[k + 1] here, mapping k is mappings[k+1].*)
(***************************************************************************)
MaxMappings == 2
MaxFreeInputs == 1
MaxMappingCount == 2
Scancodes == {30, 31}
Buttons == {0}
CursorAxes == {0, 1}
CursorPositions == {0, 5}

\* the lookup table of each input type
Tables == [Key |-> "keyMap", MouseButton |-> "mouseButtonMap", Cursor |-> "cursorMap"]

\* map.erase(code)
eraseCode(table, code) == [c \in DOMAIN table \ {code} |-> table[c]]

\* map.emplace(code, index), for a code the map does not hold
emplace(table, code, index) == [c \in DOMAIN table \cup {code} |-> IF c = code THEN index ELSE table[c]]

\* createMapping(): the mapping returned is Len(m.mappings)
createMapping(m) == [m EXCEPT !.mappings = Append(@, 0)]

\* map(mapping, inputIndex)
mapInput(m, mapping, inputIndex) ==
    [m EXCEPT !.mappings[mapping + 1] = inputIndex,
              !.inputs[inputIndex + 1].mappingCount = @ + 1]

\* unmap(mapping): the count of the mapping's input goes down; at 0 the
\* input's entry leaves keyMap or mouseButtonMap (the cursor case erases
\* nothing) and the input goes on the free list
unmap(m, mapping) ==
    LET inputIndex == m.mappings[mapping + 1]
        input      == m.inputs[inputIndex + 1]
        counted    == [m EXCEPT !.inputs[inputIndex + 1].mappingCount = @ - 1]
    IN  IF inputIndex = 0 THEN m
        ELSE IF input.mappingCount - 1 # 0 THEN counted
        ELSE [counted EXCEPT
                 !.keyMap = IF input.inputType = "Key" THEN eraseCode(@, input.code) ELSE @,
                 !.mouseButtonMap = IF input.inputType = "MouseButton" THEN eraseCode(@, input.code) ELSE @,
                 !.freeInputs = Append(@, inputIndex)]

\* getInputIndex(map, code, input): the index returned and the state after
getInputIndex(m, table, code, input) ==
    IF code \in DOMAIN m[table] THEN [index |-> m[table][code], m |-> m]
    ELSE IF m.freeInputs = << >>
    THEN [index |-> Len(m.inputs),
          m |-> [m EXCEPT ![table] = emplace(@, code, Len(m.inputs)),
                          !.inputs = Append(@, input)]]
    ELSE LET index == m.freeInputs[Len(m.freeInputs)]
         IN  [index |-> index,
              m |-> [m EXCEPT !.freeInputs = SubSeq(@, 1, Len(@) - 1),
                              ![table] = emplace(@, code, index),
                              !.inputs[index + 1] = input]]

\* mapKey, mapMouseButton and mapCursor, by the input type
mapCode(m, mapping, inputType, code) ==
    LET r == getInputIndex(unmap(m, mapping), Tables[inputType], code, Input(inputType, code))
    IN  mapInput(r.m, mapping, r.index)

mapKey(m, mapping, scancode) == mapCode(m, mapping, "Key", scancode)

mapMouseButton(m, mapping, scancode) == mapCode(m, mapping, "MouseButton", scancode)

mapCursor(m, mapping, axis) == mapCode(m, mapping, "Cursor", axis)

\* updateStateBoolean and updateStateReal
updateState(m, table, code, state) ==
    IF code \in DOMAIN m[table] THEN [m EXCEPT !.inputs[m[table][code] + 1].state = state] ELSE m

\* handleKey(key, scancode, action, mods)
handleKey(m, scancode, pressed) ==
    updateState(m, "keyMap", scancode, [real |-> FALSE, v |-> IF pressed THEN 1 ELSE 0])

\* handleMouseButton(button, action, mods)
handleMouseButton(m, button, pressed) ==
    updateState(m, "mouseButtonMap", button, [real |-> FALSE, v |-> IF pressed THEN 1 ELSE 0])

\* handleCursorPosition(x, y)
handleCursorPosition(m, x, y) ==
    updateState(updateState(m, "cursorMap", 0, [real |-> TRUE, v |-> x]),
                "cursorMap", 1, [real |-> TRUE, v |-> y])

\* nextFrame()
nextFrame(m) ==
    [m EXCEPT !.inputs = [k \in 1 .. Len(m.inputs) |-> [m.inputs[k] EXCEPT !.previousState = m.inputs[k].state]]]

InputInit ==
    /\ StoreIdle
    /\ op = Call("init", 0, FALSE, 0)
    /\ SetGameInit(GameLogic(1, 1))
    /\ scanned = NoScan
    /\ manager = InputManager

\* the calls are followed while the free list and the counts stay small
InputBounded(m) ==
    /\ Len(m.freeInputs) <= MaxFreeInputs
    /\ \A k \in 1 .. Len(m.inputs) :
          m.inputs[k].mappingCount \in (0 - MaxMappingCount) .. MaxMappingCount

InputCreateMapping ==
    /\ Len(manager.mappings) < MaxMappings
    /\ manager' = createMapping(manager)
    /\ op' = Call("createMapping", Len(manager.mappings), FALSE, 0)
    /\ UNCHANGED << storeVars, gameVars, scanned >>

\* mapKey, mapMouseButton or mapCursor on a mapping that createMapping returned
InputMap(mapping, inputType, code) ==
    /\ mapping < Len(manager.mappings)
    /\ InputBounded(mapCode(manager, mapping, inputType, code))
    /\ manager' = CASE inputType = "Key" -> mapKey(manager, mapping, code)
                    [] inputType = "MouseButton" -> mapMouseButton(manager, mapping, code)
                    [] inputType = "Cursor" -> mapCursor(manager, mapping, code)
    /\ op' = Call("map" \o inputType, mapping, FALSE, code)
    /\ UNCHANGED << storeVars, gameVars, scanned >>

\* an event of the window that changes an input's state
InputEvent(after, kind) ==
    /\ manager' = after
    /\ op' = Call(kind, 0, FALSE, 0)
    /\ UNCHANGED << storeVars, gameVars, scanned >>

InputNext ==
    \/ InputCreateMapping
    \/ \E mapping \in 0 .. (MaxMappings - 1) :
          \/ \E scancode \in Scancodes : InputMap(mapping, "Key", scancode)
          \/ \E button \in Buttons : InputMap(mapping, "MouseButton", button)
          \/ \E axis \in CursorAxes : InputMap(mapping, "Cursor", axis)
    \/ \E scancode \in Scancodes, pressed \in BOOLEAN :
          InputEvent(handleKey(manager, scancode, pressed), "handleKey")
    \/ \E button \in Buttons, pressed \in BOOLEAN :
          InputEvent(handleMouseButton(manager, button, pressed), "handleMouseButton")
    \/ \E x, y \in CursorPositions :
          InputEvent(handleCursorPosition(manager, x, y), "handleCursorPosition")
    \/ InputEvent(nextFrame(manager), "nextFrame")

InputSpec == InputInit /\ [][InputNext]_vars

\* the input slots that an entry of a lookup table names
Referenced(m) ==
    UNION {{m[Tables[inputType]][code] : code \in DOMAIN m[Tables[inputType]]} : inputType \in DOMAIN Tables}

\* every entry of a lookup table names a slot that serves the entry's code
ServesItsCode(m) ==
    \A inputType \in DOMAIN Tables : \A code \in DOMAIN m[Tables[inputType]] :
        LET input == m.inputs[m[Tables[inputType]][code] + 1]
        IN  input.inputType = inputType /\ input.code = code

\* C40: after any sequence of createMapping, mapKey, mapMouseButton and
\* mapCursor calls no slot on the free list is named by an entry of keyMap,
\* mouseButtonMap or cursorMap, and every entry names a slot that serves the
\* entry's own code, so that no slot gets the updates of a code it served
\* before.  This does not hold: unmap puts the slot of a cursor axis on the
\* free list and leaves the axis's entry in cursorMap.
C40_FreeSlotsUnreferenced ==
    /\ Range(manager.freeInputs) \cap Referenced(manager) = {}
    /\ ServesItsCode(manager)

====
